---- MODULE Spec2Model ----
(***************************************************************************)
(* Model of the freedreno a3xx TGSI -> ir3 front end (fd3_compiler.c):     *)
(* the compile context, the instruction emitter with its deferred          *)
(* output-update queue, the SSA resolver, vectorize(), the immediate pool, *)
(* the opcode translators and the IF / ELSE / ENDIF scoping with phi       *)
(* synthesis.                                                              *)
(*                                                                         *)
(* Pointers are indices: an ir3_instruction* is an index into instrs, an   *)
(* ir3_block* an index into blocks, and 0 is NULL.  A 32-bit word (the     *)
(* uint32_t bits of a float) is the pair <<sign bit, low 31 bits>>.        *)
(***************************************************************************)
EXTENDS Integers, Sequences, FiniteSets, TLC

VARIABLES
    instrs,     \* the ir3 instruction heap, in creation order
    blocks,     \* the ir3 block heap
    ctx,        \* struct fd3_compile_context (scalar fields and small arrays)
    so,         \* struct fd3_shader_stateobj (immediates, precision, kind)
    pc,         \* where the compile is: "init", the declarations, "instr",
                \* or "vectorize" while a translator is inside vectorize()
    frame,      \* the locals of the translator that is inside vectorize()
    hist        \* record of the last token lowered (observation only)

vars == <<instrs, blocks, ctx, so, pc, frame, hist>>

NULL == 0

(***************************************************************************)
(* Bounds of the model.                                                    *)
(***************************************************************************)
\* tokens lowered in one compile of the straight-line specification
MaxTokens == 2
\* tokens lowered in one compile of the control-flow specification
MaxFlowTokens == 5
\* deepest nesting of IF scopes explored
MaxDepth == 2
\* tokens lowered in one compile of the stepped specification
MaxVecTokens == 2
\* requests made of the immediate pool
MaxRequests == 3
\* the highest register index a scan reports for a file
MaxIndex == 1
\* IF tokens of a stream that only opens conditionals
MaxDeepTokens == 17
\* instruction tokens of a stream compiled from call to return
MaxCallTokens == 2
\* calls of the instruction emitter made in one run
MaxSteps == 5
\* instruction tokens of a stream that requests internal temporaries
MaxTempTokens == 3
\* instruction tokens of a stream of texture samples
MaxSampTokens == 2
\* instruction tokens of a stream with saturate modifiers
MaxSatTokens == 3
\* instruction tokens of a stream with constant operands
MaxConstTokens == 2
\* instruction tokens of a stream of comparisons
MaxCmpTokens == 2
\* instruction tokens of a stream of conditionals opened one inside the
\* other and then closed
MaxNestTokens == 18
\* steps of a stream of fan-in operands
MaxFanSteps == 3

(***************************************************************************)
(* Program constants.                                                      *)
(***************************************************************************)
OutputUpdatesSize == 16
InternalTempsSize == 6
BranchSize == 16
ExtraTemporaries == 4

TGSI_WRITEMASK_XYZW == 15
TGSI_WRITEMASK_XY == 3
TGSI_WRITEMASK_XYZ == 7

\* tgsi_scan_shader(): the highest register index the token stream uses in
\* each file (-1: the file is unused)
file_max ==
    [TEMPORARY |-> 0, INPUT |-> 0, OUTPUT |-> 0, CONST |-> 0,
     IMMEDIATE |-> 0, ADDRESS |-> -1, SAMPLER |-> -1]

(***************************************************************************)
(* Words and bits.                                                         *)
(***************************************************************************)
Two31m1 == 2147483647

\* fui(): the bits of a float
fui_0_0 == <<0, 0>>
fui_1_0 == <<0, 1065353216>>
fui_m1_0 == <<1, 1065353216>>
fui_4_0 == <<0, 1082130432>>
fui_m4_0 == <<1, 1082130432>>

\* -val on a uint32_t: two's complement negation modulo 2^32
NegU32(w) ==
    IF w[2] = 0 THEN w ELSE <<1 - w[1], (Two31m1 - w[2]) + 1>>

\* the float negation of the value whose bits are w: the sign bit flipped
FNeg(w) == <<1 - w[1], w[2]>>

Bit(m, i) == (m \div (2 ^ i)) % 2 = 1

\* number of bits set in a 4-bit mask
PopCount(m) == Cardinality({i \in 0..3 : Bit(m, i)})

\* regid(): ((num) << 2) | (comp)
regid(num, comp) == num * 4 + comp

IDENTITY_SWIZZLE == <<0, 1, 2, 3>>

(***************************************************************************)
(* compile_init(): register bases.                                         *)
(***************************************************************************)
\* ctx->base_reg[file] as compile_init() sets it, fm being the per-file
\* maxima that the scan reported
compile_init_base_reg_packed(fm, type, half_precision, file) ==
    LET base == IF type = "FRAGMENT" /\ ~half_precision THEN 1 ELSE 0
    IN  CASE file = "IMMEDIATE" -> fm.CONST + 1
          [] file = "INPUT"     -> base
          [] file = "OUTPUT"    -> base + fm.INPUT
          [] file = "TEMPORARY" -> base + fm.INPUT + fm.OUTPUT
          [] OTHER              -> 0

compile_init_base_reg(fm, type, half_precision, file) ==
    LET base == IF type = "FRAGMENT" /\ ~half_precision THEN 1 ELSE 0
    IN  CASE file = "CONST"     -> 0
          [] file = "IMMEDIATE" -> fm.CONST + 1
          [] file = "INPUT"     -> base
          [] file = "OUTPUT"    -> base + fm.INPUT + 1
          [] file = "TEMPORARY" -> base + fm.INPUT + 1 + fm.OUTPUT + 1
          [] OTHER              -> 0

base_reg(s, file) ==
    compile_init_base_reg(file_max, s.type, s.half_precision, file)

SCALAR_REGS(file) == 4 * (file_max[file] + 1)

(***************************************************************************)
(* ir3 allocation primitives.                                              *)
(***************************************************************************)
NoReg == [num |-> 0, flags |-> {}, instr |-> NULL, iim_val |-> 0,
          fim_val |-> fui_0_0, wrmask |-> 1]

\* ir3_instr_create(block, category, opc): a new instruction at the end of
\* the heap; its index is Len(result.instrs)
ir3_instr_create(s, block, category, opc) ==
    [s EXCEPT !.instrs = Append(@,
        [category |-> category, opc |-> opc, block |-> block, regs |-> <<>>,
         condition |-> "", src_type |-> "", dst_type |-> "",
         if_block |-> NULL, else_block |-> NULL, fo_off |-> 0,
         flags |-> {}, cat5 |-> [type |-> "", samp |-> 0, tex |-> 0]])]

\* ir3_instr_clone(instr): a copy of instr, registers included
ir3_instr_clone(s, instr) ==
    [s EXCEPT !.instrs = Append(@, s.instrs[instr])]

\* ir3_reg_create(instr, num, flags): a new register at the end of regs
ir3_reg_create(s, instr, num, flags) ==
    [s EXCEPT !.instrs[instr].regs =
        Append(@, [NoReg EXCEPT !.num = num, !.flags = flags])]

LastInstr(s) == Len(s.instrs)
LastReg(s, instr) == Len(s.instrs[instr].regs)

\* ir3_block_create(shader, ntmp, nin, nout)
ir3_block_create(s, ntmp, nin, nout) ==
    [s EXCEPT !.blocks = Append(@,
        [parent |-> NULL,
         ntemporaries |-> ntmp, ninputs |-> nin, noutputs |-> nout,
         temporaries |-> [i \in 0..(ntmp - 1) |-> NULL],
         inputs |-> [i \in 0..(nin - 1) |-> NULL],
         outputs |-> [i \in 0..(nout - 1) |-> NULL]])]

(***************************************************************************)
(* compile_error / compile_assert: the failure is recorded and, the        *)
(* assertion being compiled out of release builds, lowering goes on.       *)
(***************************************************************************)
compile_error(s) == [s EXCEPT !.err = TRUE]

compile_assert(s, cond) == IF cond THEN s ELSE compile_error(s)

\* A sequence point: the state s has been computed.  It holds of every
\* state; the loops below pass it before each turn, so that a turn starts
\* from a finished state.
Ready(s) == Len(s.instrs) >= 0


\* the value the last value-returning call returned
Ret(s, v) == [s EXCEPT !.ret = v]

\* ... when it is the instruction created last
RetLast(s) == [s EXCEPT !.ret = Len(s.instrs)]

(***************************************************************************)
(* Instruction emitter.                                                    *)
(***************************************************************************)
RECURSIVE ApplyUpdates(_, _, _)
ApplyUpdates(blks, upd, i) ==
    IF i > Len(upd) THEN blks
    ELSE ApplyUpdates(
            IF upd[i].file = "OUTPUT"
            THEN [blks EXCEPT ![upd[i].block].outputs[upd[i].n] = upd[i].instr]
            ELSE [blks EXCEPT ![upd[i].block].temporaries[upd[i].n] =
                                  upd[i].instr],
            upd, i + 1)

\* instr_finish() as it would be if the queue were dropped, not applied
instr_finish_no_flush(s) ==
    IF s.atomic THEN s
    ELSE [s EXCEPT !.output_updates = <<>>]

instr_finish(s) ==
    IF s.atomic THEN s
    ELSE [s EXCEPT !.blocks = ApplyUpdates(s.blocks, s.output_updates, 1),
                   !.output_updates = <<>>]

instr_atomic_start(s) == [s EXCEPT !.atomic = TRUE]

instr_atomic_end(s) == instr_finish([s EXCEPT !.atomic = FALSE])

\* return (ctx->current_instr = <the instruction created last>)
set_current_instr(s) == [s EXCEPT !.current_instr = LastInstr(s)]

\* instr_create() as it would be if it left the deferred writes pending
instr_create_unflushed(s, category, opc) ==
    set_current_instr(ir3_instr_create(s, s.block, category, opc))

instr_create(s, category, opc) ==
    set_current_instr(ir3_instr_create(instr_finish(s), s.block, category, opc))

instr_clone(s, instr) ==
    set_current_instr(ir3_instr_clone(instr_finish(s), instr))

push_block(s) ==
    LET ntmp == SCALAR_REGS("TEMPORARY") + 4 * ExtraTemporaries
        nin  == IF s.block = NULL
                THEN IF s.type = "FRAGMENT"
                     THEN IF SCALAR_REGS("INPUT") < 2 THEN 2
                          ELSE SCALAR_REGS("INPUT")
                     ELSE SCALAR_REGS("INPUT")
                ELSE ntmp
        nout == SCALAR_REGS("OUTPUT")
        b    == Len(s.blocks) + 1
    IN  [ir3_block_create(s, ntmp, nin, nout)
            EXCEPT !.blocks[b].parent = s.block, !.block = b]

pop_block(s) ==
    compile_assert([s EXCEPT !.block = s.blocks[s.block].parent],
                   s.blocks[s.block].parent # NULL)

ssa_dst(s, instr, dst, chan) ==
    LET n   == regid(dst.Index, chan)
        idx == Len(s.output_updates)
        upd == [block |-> s.block, file |-> dst.File, n |-> n,
                instr |-> instr]
    IN  CASE dst.File = "OUTPUT" ->
               [compile_assert(compile_assert(s, idx < OutputUpdatesSize),
                               n < s.blocks[s.block].noutputs)
                   EXCEPT !.output_updates = Append(@, upd)]
          [] dst.File = "TEMPORARY" ->
               [compile_assert(compile_assert(s, idx < OutputUpdatesSize),
                               n < s.blocks[s.block].ntemporaries)
                   EXCEPT !.output_updates = Append(@, upd)]
          [] OTHER -> compile_assert(s, idx < OutputUpdatesSize)

(***************************************************************************)
(* SSA resolver.                                                           *)
(***************************************************************************)
\* ir3_reg_create(instr, 0, IR3_REG_SSA)->instr = ref
ir3_reg_create_ssa(s, instr, ref) ==
    [ir3_reg_create(s, instr, 0, {"SSA"})
        EXCEPT !.instrs[instr].regs[LastReg(s, instr) + 1].instr = ref]

\* the registers of a boundary node, the instruction created last: the
\* slot number, and the source when there is one
create_inout_regs(s, instr, n) ==
    IF instr # NULL
    THEN ir3_reg_create_ssa(ir3_reg_create(s, LastInstr(s), n, {}),
                            LastInstr(s), instr)
    ELSE ir3_reg_create(s, LastInstr(s), n, {})

\* create_output() as it would be if the node never linked its source
create_output_unlinked(s, block, instr, n) ==
    create_inout_regs(ir3_instr_create(s, block, -1, "META_OUTPUT"), NULL, n)

\* create_output(block, instr, n)
create_output(s, block, instr, n) ==
    create_inout_regs(ir3_instr_create(s, block, -1, "META_OUTPUT"), instr, n)

\* create_input(block, instr, n)
create_input(s, block, instr, n) ==
    create_inout_regs(ir3_instr_create(s, block, -1, "META_INPUT"), instr, n)

RECURSIVE block_input(_, _, _)
\* block_input() as it would be if it looked in the scope it is given
block_input_local(s, block, n) == s.blocks[block].inputs[n]

block_input(s, block, n) ==
    IF s.blocks[block].parent # NULL
    THEN block_input(s, s.blocks[block].parent, n)
    ELSE s.blocks[block].inputs[n]

\* block_temporary(), nested scope: s.ret is the value of the enclosing
\* scope; it is remembered in inputs[n] and a boundary node is returned
block_temporary_input(s, block, n) ==
    RetLast(create_input([s EXCEPT !.blocks[block].inputs[n] = s.ret],
                         block, s.ret, n))

\* block_temporary(block, n): the instruction is returned in ret
RECURSIVE block_temporary(_, _, _)
block_temporary(s, block, n) ==
    IF s.blocks[block].parent # NULL /\ s.blocks[block].temporaries[n] = NULL
    THEN block_temporary_input(
            IF s.blocks[block].inputs[n] = NULL
            THEN block_temporary(s, s.blocks[block].parent, n)
            ELSE Ret(s, s.blocks[block].inputs[n]),
            block, n)
    ELSE Ret(s, s.blocks[block].temporaries[n])

get_ftype(s) == IF s.half_precision THEN "TYPE_F16" ELSE "TYPE_F32"

get_utype(s) == IF s.half_precision THEN "TYPE_U16" ELSE "TYPE_U32"

\* the types of the cat1 instruction created last
set_cat1_types(s, src_type, dst_type) ==
    [s EXCEPT !.instrs[LastInstr(s)].src_type = src_type,
              !.instrs[LastInstr(s)].dst_type = dst_type]

\* the two registers of create_immed()'s mov, the instruction created last
create_immed_regs(s, val) ==
    [ir3_reg_create(ir3_reg_create(s, LastInstr(s), 0, {}),
                    LastInstr(s), 0, {"IMMED"})
        EXCEPT !.instrs[LastInstr(s)].regs[2].fim_val = val]

\* create_immed(ctx, val): a mov of the immediate val, created without
\* instr_create(), so without flushing the deferred writes
create_immed(s, val) ==
    create_immed_regs(
        set_cat1_types(ir3_instr_create(s, s.block, 1, "OPC_0"),
                       get_ftype(s), get_ftype(s)),
        val)

\* reg->flags |= IR3_REG_SSA; reg->instr = v
set_ssa(s, instr, r, v) ==
    [s EXCEPT !.instrs[instr].regs[r].flags = @ \cup {"SSA"},
              !.instrs[instr].regs[r].instr = v]

\* ... v being the value just returned
set_ssa_ret(s, instr, r) == set_ssa(s, instr, r, s.ret)

\* reg->instr = <the instruction created last>
set_ssa_last(s, instr, r) ==
    [s EXCEPT !.instrs[instr].regs[r].instr = LastInstr(s)]

\* the end of ssa_src(): a register left without a value reads 0.0
ssa_src_zero(s, instr, r) ==
    IF /\ "SSA" \in s.instrs[instr].regs[r].flags
       /\ s.instrs[instr].regs[r].instr = NULL
    THEN set_ssa_last(create_immed(s, fui_0_0), instr, r)
    ELSE s

\* ssa_src(ctx, reg, src, chan), reg being register number r of instr
ssa_src(s, instr, r, src, chan) ==
    ssa_src_zero(
        CASE src.File = "INPUT" ->
               set_ssa(s, instr, r,
                       block_input(s, s.block, regid(src.Index, chan)))
          [] src.File = "OUTPUT" ->
               compile_assert(
                   set_ssa(s, instr, r,
                       s.blocks[s.block].outputs[regid(src.Index, chan)]),
                   s.blocks[s.block].outputs[regid(src.Index, chan)] # NULL)
          [] src.File = "TEMPORARY" ->
               set_ssa_ret(
                   block_temporary(s, s.block, regid(src.Index, chan)),
                   instr, r)
          [] OTHER -> s,
        instr, r)

(***************************************************************************)
(* Operand records.                                                        *)
(***************************************************************************)
REG_A0 == 61

HalfFlag(s) == IF s.half_precision THEN {"HALF"} ELSE {}

\* reg = ir3_reg_create(instr, num, flags); reg->wrmask = wrmask
ir3_reg_create_wrmask(s, instr, num, flags, wrmask) ==
    [ir3_reg_create(s, instr, num, flags)
        EXCEPT !.instrs[instr].regs[LastReg(s, instr) + 1].wrmask = wrmask]

\* ir3_reg_create(instr, 0, IR3_REG_IMMED)->iim_val = val
ir3_reg_create_iim(s, instr, val) ==
    [ir3_reg_create(s, instr, 0, {"IMMED"})
        EXCEPT !.instrs[instr].regs[LastReg(s, instr) + 1].iim_val = val]

\* if (!ctx->atomic) ssa_dst(ctx, instr, dst, chan)
ssa_dst_unless_atomic(s, instr, dst, chan) ==
    IF ~s.atomic THEN ssa_dst(s, instr, dst, chan) ELSE s

\* one meta:fo collect node, the instruction created last, for component
\* chan + i of the destination of instr
dst_collect_one(s, instr, dst, chan, i) ==
    ssa_dst_unless_atomic(
        ir3_reg_create_ssa(
            ir3_reg_create([s EXCEPT !.instrs[LastInstr(s)].fo_off = i],
                           LastInstr(s), 0, {}),
            LastInstr(s), instr),
        LastInstr(s), dst, chan + i)

\* the meta:fo collect nodes of add_dst_reg_wrmask(), components i..3
RECURSIVE dst_collect(_, _, _, _, _, _)
dst_collect(s, instr, dst, chan, wrmask, i) ==
    IF i > 3 \/ ~Ready(s) THEN s
    ELSE dst_collect(
            IF Bit(wrmask, i)
            THEN dst_collect_one(ir3_instr_create(s, s.block, -1, "META_FO"),
                                 instr, dst, chan, i)
            ELSE s,
            instr, dst, chan, wrmask, i + 1)

\* add_dst_reg_wrmask() after the register is created
add_dst_reg_ssa(s, instr, dst, chan, wrmask) ==
    IF wrmask = 1
    THEN ssa_dst_unless_atomic(s, instr, dst, chan)
    ELSE IF dst.File \in {"TEMPORARY", "OUTPUT"}
         THEN dst_collect(s, instr, dst, chan, wrmask, 0)
         ELSE s

\* add_dst_reg_wrmask(): the new register is LastReg(result, instr)
add_dst_reg_wrmask(s, instr, dst, chan, wrmask) ==
    LET num == CASE dst.File \in {"OUTPUT", "TEMPORARY"} ->
                     dst.Index + base_reg(s, dst.File)
                 [] dst.File = "ADDRESS" -> REG_A0
                 [] OTHER -> 0
    IN  add_dst_reg_ssa(
            ir3_reg_create_wrmask(
                IF dst.File \in {"OUTPUT", "TEMPORARY", "ADDRESS"} THEN s
                ELSE compile_error(s),
                instr, regid(num, chan), HalfFlag(s), wrmask),
            instr, dst, chan, wrmask)

add_dst_reg(s, instr, dst, chan) == add_dst_reg_wrmask(s, instr, dst, chan, 1)

\* i << i, and the test wrmask & ~((i << i) - 1) on a 4-bit wrmask
ShiftSelf(i) == i * (2 ^ i)

AnyBitAtOrAbove(wrmask, low) ==
    \E k \in 0..3 : Bit(wrmask, k) /\ ~Bit(low, k)

\* ssa_src(ctx, ir3_reg_create(collect, 0, IR3_REG_SSA), src, chan)
ssa_src_collect(s, c, src, chan) ==
    ssa_src(ir3_reg_create(s, c, 0, {"SSA"}), c, LastReg(s, c) + 1, src, chan)

\* the meta:fi operands of add_src_reg_wrmask(), components i..3
RECURSIVE src_collect(_, _, _, _, _, _)
src_collect(s, c, src, chan, wrmask, i) ==
    IF i > 3 \/ ~Ready(s) THEN s
    ELSE src_collect(
            IF Bit(wrmask, i)
            THEN ssa_src_collect(s, c, src, chan + i)
            ELSE IF AnyBitAtOrAbove(wrmask, (ShiftSelf(i) - 1) % 16)
                 THEN ir3_reg_create(s, c, 0, {})
                 ELSE s,
            c, src, chan, wrmask, i + 1)

\* the meta:fi collect node, the instruction created last, that register r
\* of instr reads
add_src_reg_collect(s, instr, r, src, chan, wrmask) ==
    set_ssa(src_collect(ir3_reg_create(s, LastInstr(s), 0, {}),
                        LastInstr(s), src, chan, wrmask, 0),
            instr, r, LastInstr(s))

\* add_src_reg_wrmask() after register r is created
add_src_reg_ssa(s, instr, r, src, chan, wrmask) ==
    IF wrmask = 1
    THEN ssa_src(s, instr, r, src, chan)
    ELSE IF src.File \in {"TEMPORARY", "OUTPUT", "INPUT"}
         THEN add_src_reg_collect(
                 ir3_instr_create(s, s.block, -1, "META_FI"),
                 instr, r, src, chan, wrmask)
         ELSE s

\* add_src_reg_wrmask(): the new register is LastReg(result, instr)
add_src_reg_wrmask(s, instr, src, chan, wrmask) ==
    LET isc == src.File \in {"IMMEDIATE", "CONST"}
        ok  == src.File \in {"IMMEDIATE", "CONST", "OUTPUT", "INPUT",
                             "TEMPORARY"}
        num == IF ok THEN src.Index + base_reg(s, src.File) ELSE 0
        fl  == (IF isc THEN {"CONST"} ELSE {})
               \cup (IF src.Absolute THEN {"ABS"} ELSE {})
               \cup (IF src.Negate THEN {"NEGATE"} ELSE {})
               \cup HalfFlag(s)
    IN  add_src_reg_ssa(
            ir3_reg_create_wrmask(
                compile_assert(compile_assert(s, src.Index < 64), ok),
                instr, regid(num, chan), fl, wrmask),
            instr, LastReg(s, instr) + 1, src, chan, wrmask)

add_src_reg(s, instr, src, chan) == add_src_reg_wrmask(s, instr, src, chan, 1)

\* src_from_dst()
src_from_dst(dst) ==
    [File |-> dst.File, Index |-> dst.Index, Absolute |-> FALSE,
     Negate |-> FALSE, Swizzle |-> IDENTITY_SWIZZLE]

\* src_swiz(src, chan)
src_swiz(src, chan) == src.Swizzle[chan + 1]

is_const(src) == src.File \in {"CONST", "IMMEDIATE"}

\* tgsi_src_register.Indirect: compile_init() rejects every shader that
\* addresses one of the five files indirectly, so it is 0 in every operand
is_relative(src) == FALSE

is_rel_or_const(src) == is_relative(src) \/ is_const(src)

(***************************************************************************)
(* Internal temporaries and the immediate pool.                            *)
(***************************************************************************)
\* the tmp_dst filled in and the tmp_src returned, for register index
InternalTemp(index) ==
    [dst |-> [File |-> "TEMPORARY", Index |-> index,
              WriteMask |-> TGSI_WRITEMASK_XYZW],
     src |-> src_from_dst([File |-> "TEMPORARY", Index |-> index,
                           WriteMask |-> TGSI_WRITEMASK_XYZW])]

\* n = ctx->num_internal_temps++; tmp_src = &ctx->internal_temps[n], filled
\* in for register index; ret is [dst, src].  A store past the end of the
\* array is outside the model: it is flagged and stores nothing.
next_internal_temp(s, index) ==
    Ret(compile_assert(
            [s EXCEPT !.num_internal_temps = @ + 1,
                      !.internal_temps =
                          IF s.num_internal_temps < InternalTempsSize
                          THEN [@ EXCEPT ![s.num_internal_temps + 1] =
                                            InternalTemp(index).src]
                          ELSE @,
                      !.oob = @ \/ s.num_internal_temps >= InternalTempsSize],
            s.num_internal_temps < InternalTempsSize),
        InternalTemp(index))

\* get_internal_temp(ctx, &tmp_dst): ret is [dst, src]
get_internal_temp(s) ==
    next_internal_temp(s, file_max.TEMPORARY + s.num_internal_temps + 1)

\* get_internal_temp_hr(ctx, &tmp_dst): ret is [dst, src]
get_internal_temp_hr(s) ==
    IF s.half_precision THEN get_internal_temp(s)
    ELSE next_internal_temp(s, 0)

\* so->immediates[i / 4].val[i % 4]; the shader object starts zeroed
ImmAt(s, i) == IF i \in DOMAIN s.immediates THEN s.immediates[i] ELSE fui_0_0

\* get_immediate(ctx, &reg, val): ret is the reg filled in.  The search
\* stops at the first slot equal to val (as a uint32_t) or to -val (the
\* uint32_t negation); with none, val goes into slot immediate_idx.
get_immediate(s, val) ==
    LET hits == {k \in 0..(s.immediate_idx - 1) :
                    ImmAt(s, k) = val \/ ImmAt(s, k) = NegU32(val)}
        i    == IF hits = {} THEN s.immediate_idx
                ELSE CHOOSE h \in hits : \A q \in hits : h <= q
        neg  == hits # {} /\ ImmAt(s, i) # val
    IN  [s EXCEPT
            !.immediates = IF hits = {} THEN (i :> val) @@ @ ELSE @,
            !.immediates_count = IF hits = {} THEN (i \div 4) + 1 ELSE @,
            !.immediate_idx = IF hits = {} THEN @ + 1 ELSE @,
            !.ret = [File |-> "IMMEDIATE", Index |-> i \div 4,
                     Absolute |-> FALSE, Negate |-> neg,
                     Swizzle |-> <<i % 4, i % 4, i % 4, i % 4>>]]

(***************************************************************************)
(* create_mov().                                                           *)
(***************************************************************************)
\* the instruction of one component of create_mov()
create_mov_instr(s, src) ==
    IF src.Absolute \/ src.Negate
    THEN instr_create(s, 2, "OPC_ABSNEG_F")
    ELSE set_cat1_types(instr_create(s, 1, "OPC_0"),
                        get_ftype(s), get_ftype(s))

\* its two registers, for component i
create_mov_regs(s, dst, src, i) ==
    add_src_reg(add_dst_reg(s, s.current_instr, dst, i),
                s.current_instr, src, src_swiz(src, i))

RECURSIVE create_mov_from(_, _, _, _)
create_mov_from(s, dst, src, i) ==
    IF i > 3 \/ ~Ready(s) THEN s
    ELSE create_mov_from(
            IF Bit(dst.WriteMask, i)
            THEN create_mov_regs(create_mov_instr(s, src), dst, src, i)
            ELSE s,
            dst, src, i + 1)

create_mov(s, dst, src) == create_mov_from(s, dst, src, 0)

\* create_mov(ctx, &tmp_dst, src); return tmp_src;  with the temporary in ret
get_unconst_mov(s, src) == Ret(create_mov(s, s.ret.dst, src), s.ret.src)

\* get_unconst(ctx, src): ret is the tmp_src returned
get_unconst(s, src) ==
    get_unconst_mov(
        get_internal_temp(compile_assert(s, is_rel_or_const(src))), src)

(***************************************************************************)
(* vectorize(ctx, instr, dst, nsrcs, ...).  The variable arguments are a   *)
(* sequence of [src, flags, imm]: with IMMED in flags the operand is the   *)
(* integer imm and src is not looked at.                                   *)
(***************************************************************************)
Arg(src, flags) == [src |-> src, flags |-> flags, imm |-> 0]

NoSrc == [File |-> "NULL", Index |-> 0, Absolute |-> FALSE,
          Negate |-> FALSE, Swizzle |-> IDENTITY_SWIZZLE]

ArgImm(imm) == [src |-> NoSrc, flags |-> {"IMMED"}, imm |-> imm]

\* the first loop, operand a: its register on the template
vectorize_src_reg(s, instr, a) ==
    IF "IMMED" \in a.flags
    THEN ir3_reg_create_iim(s, instr, a.imm)
    ELSE add_src_reg(s, instr, a.src, 0)

\* the first loop, operand a: the caller's flags on the register just made
vectorize_src_flags(s, instr, a) ==
    LET r  == LastReg(s, instr)
        f1 == s.instrs[instr].regs[r].flags \cup (a.flags \ {"NEGATE"})
    IN  [s EXCEPT !.instrs[instr].regs[r].flags =
            IF "NEGATE" \in a.flags
            THEN IF "NEGATE" \in f1 THEN f1 \ {"NEGATE"}
                 ELSE f1 \cup {"NEGATE"}
            ELSE f1]

\* the first loop: operand j..nsrcs of the template
RECURSIVE vectorize_srcs(_, _, _, _)
vectorize_srcs(s, instr, args, j) ==
    IF j > Len(args) \/ ~Ready(s) THEN s
    ELSE vectorize_srcs(
            vectorize_src_flags(vectorize_src_reg(s, instr, args[j]),
                                instr, args[j]),
            instr, args, j + 1)

\* vectorize() up to the component loop
vectorize_start(s, instr, dst, args) ==
    vectorize_srcs(add_dst_reg(instr_atomic_start(s), instr, dst, 0),
                   instr, args, 1)

\* the source fix-up of one component: operand j of cur
vectorize_fix_src(s, cur, a, i, j) ==
    IF "SSA" \in s.instrs[cur].regs[j + 1].flags
    THEN ssa_src(s, cur, j + 1, a.src, src_swiz(a.src, i))
    ELSE IF "IMMED" \notin a.flags
         THEN [s EXCEPT !.instrs[cur].regs[j + 1].num =
                 regid(s.instrs[cur].regs[j + 1].num \div 4,
                       src_swiz(a.src, i))]
         ELSE s

\* the source fix-up of one component: operand j..nsrcs of cur
RECURSIVE vectorize_fix(_, _, _, _, _)
vectorize_fix(s, cur, args, i, j) ==
    IF j > Len(args) \/ ~Ready(s) THEN s
    ELSE vectorize_fix(vectorize_fix_src(s, cur, args[j], i, j),
                       cur, args, i, j + 1)

\* one turn of the component loop once cur is chosen, as it would be
\* without the fix-up of the destination component
vectorize_cur_no_dst_fix(s, cur, dst, args, i) ==
    vectorize_fix(ssa_dst(s, cur, dst, i), cur, args, i, 1)

\* one turn of the component loop once cur is chosen
vectorize_cur(s, cur, dst, args, i) ==
    vectorize_fix(
        [ssa_dst(s, cur, dst, i) EXCEPT !.instrs[cur].regs[1].num =
            regid(s.instrs[cur].regs[1].num \div 4, i)],
        cur, args, i, 1)

\* one turn of the component loop, for an enabled component i; n is the
\* number of components done before
vectorize_comp(s, instr, dst, args, i, n) ==
    IF n = 0
    THEN vectorize_cur(s, instr, dst, args, i)
    ELSE vectorize_cur(instr_clone(s, instr), Len(s.instrs) + 1, dst, args, i)

RECURSIVE vectorize_loop(_, _, _, _, _, _)
vectorize_loop(s, instr, dst, args, i, n) ==
    IF i > 3 \/ ~Ready(s) THEN s
    ELSE IF Bit(dst.WriteMask, i)
         THEN vectorize_loop(vectorize_comp(s, instr, dst, args, i, n),
                             instr, dst, args, i + 1, n + 1)
         ELSE vectorize_loop(s, instr, dst, args, i + 1, n)

vectorize(s, instr, dst, args) ==
    instr_atomic_end(
        vectorize_loop(vectorize_start(s, instr, dst, args),
                       instr, dst, args, 0, 0))

\* vectorize(ctx, instr, dst, ...), instr being what instr_create() has
\* just returned
vectorize_instr(s, dst, args) == vectorize(s, s.current_instr, dst, args)

(***************************************************************************)
(* Clamp, and the destination hazard.                                      *)
(***************************************************************************)
\* create_clamp() as it would be if it wrote all four components
create_clamp_unmasked(s, dst, val, minval, maxval) ==
    vectorize_instr(
        instr_create(
            vectorize_instr(instr_create(s, 2, "OPC_MAX_F"),
                            [dst EXCEPT !.WriteMask = TGSI_WRITEMASK_XYZW],
                            <<Arg(val, {}), Arg(minval, {})>>),
            2, "OPC_MIN_F"),
        [dst EXCEPT !.WriteMask = TGSI_WRITEMASK_XYZW],
        <<Arg(val, {}), Arg(maxval, {})>>)

create_clamp(s, dst, val, minval, maxval) ==
    vectorize_instr(
        instr_create(
            vectorize_instr(instr_create(s, 2, "OPC_MAX_F"), dst,
                            <<Arg(val, {}), Arg(minval, {})>>),
            2, "OPC_MIN_F"),
        dst, <<Arg(val, {}), Arg(maxval, {})>>)

\* create_clamp_imm() with both immediates at hand: maxconst is in ret
create_clamp_imm_clamp(s, dst, minconst) ==
    create_clamp(s, dst, src_from_dst(dst), minconst, s.ret)

\* create_clamp_imm() from its second get_immediate(): minconst is in ret
create_clamp_imm_max(s, dst, maxval) ==
    create_clamp_imm_clamp(get_immediate(s, maxval), dst, s.ret)

create_clamp_imm(s, dst, minval, maxval) ==
    create_clamp_imm_max(get_immediate(s, minval), dst, maxval)

\* does source register i of inst alias the destination non-trivially?
Hazard(inst, i) ==
    /\ inst.Src[i].File = inst.Dst.File
    /\ inst.Src[i].Index = inst.Dst.Index
    /\ ~(inst.Dst.WriteMask = TGSI_WRITEMASK_XYZW
         /\ inst.Src[i].Swizzle = IDENTITY_SWIZZLE)

\* get_dst(), the redirection: the internal temporary is in ret
get_dst_tmp(s, inst) ==
    LET dst == [s.ret.dst EXCEPT !.WriteMask = inst.Dst.WriteMask]
    IN  [s EXCEPT !.tmp_src = s.ret.src, !.tmp_dst = dst,
                  !.ret = [dst |-> dst, tmp |-> TRUE]]

\* get_dst() as it would be without the redirection
get_dst_direct(s, inst) == Ret(s, [dst |-> inst.Dst, tmp |-> FALSE])

\* get_dst(ctx, inst): ret is [dst, tmp], the destination to use and
\* whether it is ctx->tmp_dst rather than the instruction's own
get_dst(s, inst) ==
    IF \E i \in 1..Len(inst.Src) : Hazard(inst, i)
    THEN get_dst_tmp(get_internal_temp(s), inst)
    ELSE Ret(s, [dst |-> inst.Dst, tmp |-> FALSE])

\* put_dst(ctx, inst, dst), for the record d that get_dst() returned
put_dst(s, inst, d) ==
    IF d.tmp THEN create_mov(s, inst.Dst, s.tmp_src) ELSE s

(***************************************************************************)
(* Translators with a 1:1 mapping to native instructions.  t is the        *)
(* instr_translater entry and inst the tgsi_full_instruction:              *)
(* [Opcode, Dst, Src, Saturate].  A handler is a chain of stages; a stage  *)
(* takes the state its predecessor left, with the value the last call      *)
(* returned in ret, and the locals it needs.                               *)
(***************************************************************************)
instr_cat0(s, t, inst) == instr_create(s, 0, t.opc)

\* instr_cat1(), Negate: the add.f of src and {0.0}, which is in ret
instr_cat1_add(s, dst, src) ==
    vectorize_instr(s, dst, <<Arg(src, {}), Arg(s.ret, {})>>)

\* instr_cat1() after get_dst(), whose record is in ret
instr_cat1_dst(s, inst) ==
    put_dst(
        IF inst.Src[1].Negate
        THEN instr_cat1_add(
                get_immediate(instr_create(s, 2, "OPC_ADD_F"), fui_0_0),
                s.ret.dst, inst.Src[1])
        ELSE create_mov(s, s.ret.dst, inst.Src[1]),
        inst, s.ret)

instr_cat1(s, t, inst) == instr_cat1_dst(get_dst(s, inst), inst)

OneSrcCat2 ==
    {"OPC_ABSNEG_F", "OPC_ABSNEG_S", "OPC_CLZ_B", "OPC_CLZ_S", "OPC_SIGN_F",
     "OPC_FLOOR_F", "OPC_CEIL_F", "OPC_RNDNE_F", "OPC_RNDAZ_F", "OPC_TRUNC_F",
     "OPC_NOT_B", "OPC_BFREV_B", "OPC_SETRM", "OPC_CBITS_B"}

src0_flags(t) == IF t.tgsi_opc = "ABS" THEN {"ABS"} ELSE {}

src1_flags(t) == IF t.tgsi_opc = "SUB" THEN {"NEGATE"} ELSE {}

\* instr_cat2(): the template is created; ret is [d, args], the record of
\* get_dst() and the operands for vectorize()
instr_cat2_instr(s, t, d, args) ==
    Ret(instr_create(s, 2, t.opc), [d |-> d, args |-> args])

\* instr_cat2(), two operands: src0, unconst'ed if need be, is in ret
instr_cat2_src0(s, t, inst, d) ==
    instr_cat2_instr(s, t, d,
        <<Arg(s.ret, src0_flags(t)), Arg(inst.Src[2], src1_flags(t))>>)

\* instr_cat2() after get_dst(), whose record is in ret
instr_cat2_dst(s, t, inst) ==
    IF t.opc \in OneSrcCat2
    THEN instr_cat2_instr(s, t, s.ret, <<Arg(inst.Src[1], src0_flags(t))>>)
    ELSE instr_cat2_src0(
            IF is_const(inst.Src[1]) /\ is_const(inst.Src[2])
            THEN get_unconst(s, inst.Src[1])
            ELSE Ret(s, inst.Src[1]),
            t, inst, s.ret)

\* instr_cat2() up to its vectorize() call
instr_cat2_begin(s, t, inst) == instr_cat2_dst(get_dst(s, inst), t, inst)

\* instr_cat2() from its vectorize() call on
instr_cat2_end(s, inst) ==
    put_dst(vectorize_instr(s, s.ret.d.dst, s.ret.args), inst, s.ret.d)

instr_cat2(s, t, inst) == instr_cat2_end(instr_cat2_begin(s, t, inst), inst)

is_mad(opc) == opc \in {"OPC_MAD_U16", "OPC_MAD_S16", "OPC_MAD_U24",
                        "OPC_MAD_S24", "OPC_MAD_F16", "OPC_MAD_F32"}

\* instr_cat3(): the instruction is created; src1, unconst'ed if need be,
\* is in ret
instr_cat3_instr(s, inst, d, swap) ==
    put_dst(
        vectorize_instr(s, d.dst,
            <<Arg(IF swap THEN inst.Src[2] ELSE inst.Src[1], {}),
              Arg(IF swap THEN inst.Src[1] ELSE s.ret, {}),
              Arg(inst.Src[3], {})>>),
        inst, d)

\* instr_cat3() after get_dst(), whose record is in ret
instr_cat3_dst(s, t, inst) ==
    LET swap == is_rel_or_const(inst.Src[2]) /\ is_mad(t.opc)
                /\ ~is_rel_or_const(inst.Src[1])
    IN  instr_cat3_instr(
            instr_create(
                IF is_rel_or_const(inst.Src[2]) /\ ~swap
                THEN get_unconst(s, inst.Src[2])
                ELSE Ret(s, inst.Src[2]),
                3, IF s.half_precision THEN t.hopc ELSE t.opc),
            inst, s.ret, swap)

instr_cat3(s, t, inst) == instr_cat3_dst(get_dst(s, inst), t, inst)

\* the two registers of one instruction of instr_cat4(), for component i
instr_cat4_regs(s, dst, src, i) ==
    add_src_reg(add_dst_reg(s, s.current_instr, dst, i),
                s.current_instr, src, src_swiz(src, 0))

\* the replication loop of instr_cat4(), components i..3
RECURSIVE instr_cat4_from(_, _, _, _, _)
instr_cat4_from(s, t, dst, src, i) ==
    IF i > 3 \/ ~Ready(s) THEN s
    ELSE instr_cat4_from(
            IF Bit(dst.WriteMask, i)
            THEN instr_cat4_regs(instr_create(s, 4, t.opc), dst, src, i)
            ELSE s,
            t, dst, src, i + 1)

\* instr_cat4(): src, unconst'ed if need be, is in ret
instr_cat4_src(s, t, inst, d) ==
    put_dst(instr_cat4_from(s, t, d.dst, s.ret, 0), inst, d)

\* instr_cat4() after get_dst(), whose record is in ret
instr_cat4_dst(s, t, inst) ==
    instr_cat4_src(
        IF is_const(inst.Src[1]) THEN get_unconst(s, inst.Src[1])
        ELSE Ret(s, inst.Src[1]),
        t, inst, s.ret)

instr_cat4(s, t, inst) == instr_cat4_dst(get_dst(s, inst), t, inst)

(***************************************************************************)
(* Translators without a 1:1 mapping.                                      *)
(***************************************************************************)
\* trans_clamp() after get_dst(), whose record is in ret
trans_clamp_dst(s, inst) ==
    put_dst(create_clamp(s, s.ret.dst, inst.Src[1], inst.Src[2], inst.Src[3]),
            inst, s.ret)

trans_clamp(s, t, inst) == trans_clamp_dst(get_dst(s, inst), inst)

\* instr->cat2.condition = cond, instr being what instr_create() returned
set_condition(s, cond) ==
    [s EXCEPT !.instrs[s.current_instr].condition = cond]

\* trans_cmp(), the last sel: {0.0} is k0 and {1.0} is in ret
trans_cmp_sel_01(s, d, tmp, k0) ==
    vectorize_instr(
        instr_create(s, 3, IF s.half_precision THEN "OPC_SEL_F16"
                           ELSE "OPC_SEL_F32"),
        d.dst, <<Arg(k0, {}), Arg(tmp.src, {}), Arg(s.ret, {})>>)

\* trans_cmp(), SNE / SGT / SLT after {0.0} is got: it is in ret
trans_cmp_sel_1(s, d, tmp) ==
    trans_cmp_sel_01(get_immediate(s, fui_1_0), d, tmp, s.ret)

\* trans_cmp() after the add.s
trans_cmp_sel(s, t, inst, d, tmp) ==
    IF t.tgsi_opc = "CMP"
    THEN vectorize_instr(
            instr_create(s, 3, IF s.half_precision THEN "OPC_SEL_F16"
                               ELSE "OPC_SEL_F32"),
            d.dst,
            <<Arg(inst.Src[3], {}), Arg(tmp.src, {}), Arg(inst.Src[2], {})>>)
    ELSE trans_cmp_sel_1(get_immediate(s, fui_0_0), d, tmp)

\* trans_cmp() after the cmps.f: the second switch and put_dst()
trans_cmp_tail(s, t, inst, d, tmp) ==
    put_dst(
        IF t.tgsi_opc \in {"SEQ", "SGE", "SLE"}
        THEN vectorize_instr(
                set_cat1_types(instr_create(s, 1, "OPC_0"),
                               get_utype(s), get_ftype(s)),
                d.dst, <<Arg(tmp.src, {})>>)
        ELSE trans_cmp_sel(
                vectorize_instr(instr_create(s, 2, "OPC_ADD_S"), tmp.dst,
                                <<Arg(tmp.src, {}), ArgImm(-1)>>),
                t, inst, d, tmp),
        inst, d)

\* trans_cmp(), the cmps.f: a0, unconst'ed if need be, is in ret
trans_cmp_cmps(s, t, inst, d, tmp, a1) ==
    trans_cmp_tail(
        vectorize_instr(
            set_condition(instr_create(s, 2, "OPC_CMPS_F"),
                          IF t.tgsi_opc \in {"SEQ", "SNE"} THEN "IR3_COND_EQ"
                          ELSE "IR3_COND_GE"),
            tmp.dst, <<Arg(s.ret, {}), Arg(a1, {})>>),
        t, inst, d, tmp)

\* trans_cmp() as it would be if every opcode compared (a, b) in the order
\* of the token
trans_cmp_srcs_in_order(s, t, inst, d, tmp) ==
    LET a0  == inst.Src[1]
        a1  == IF t.tgsi_opc = "CMP" THEN s.ret ELSE inst.Src[2]
    IN  trans_cmp_cmps(
            IF is_const(a0) /\ is_const(a1) THEN get_unconst(s, a0)
            ELSE Ret(s, a0),
            t, inst, d, tmp, a1)

\* trans_cmp() after the first switch: constval0, for CMP, is in ret
trans_cmp_srcs(s, t, inst, d, tmp) ==
    LET opc == t.tgsi_opc
        a0  == IF opc \in {"SEQ", "SNE", "SLE", "SGT"} THEN inst.Src[2]
               ELSE inst.Src[1]
        a1  == CASE opc \in {"SEQ", "SNE", "SLE", "SGT"} -> inst.Src[1]
                 [] opc \in {"SGE", "SLT"} -> inst.Src[2]
                 [] OTHER -> s.ret
    IN  trans_cmp_cmps(
            IF is_const(a0) /\ is_const(a1) THEN get_unconst(s, a0)
            ELSE Ret(s, a0),
            t, inst, d, tmp, a1)

\* trans_cmp() after get_internal_temp(), whose temporary is in ret
trans_cmp_tmp(s, t, inst, d) ==
    trans_cmp_srcs(
        IF t.tgsi_opc = "CMP" THEN get_immediate(s, fui_0_0)
        ELSE Ret(s, NoSrc),
        t, inst, d, s.ret)

\* trans_cmp() after get_dst(), whose record is in ret
trans_cmp_dst(s, t, inst) ==
    trans_cmp_tmp(get_internal_temp(s), t, inst, s.ret)

trans_cmp(s, t, inst) == trans_cmp_dst(get_dst(s, inst), t, inst)

(***************************************************************************)
(* Conditionals.                                                           *)
(***************************************************************************)
\* push_branch(): a store past branch[15] lands outside the array
push_branch(s, instr) ==
    [s EXCEPT !.branch = Append(@, instr),
              !.oob = @ \/ Len(s.branch) >= BranchSize]

\* pop_branch(): ret is the instruction returned
pop_branch(s) ==
    [s EXCEPT !.branch = SubSeq(@, 1, Len(@) - 1),
              !.ret = s.branch[Len(s.branch)]]

\* instr->flow.if_block = <the block push_block() returned>
set_if_block(s, instr) == [s EXCEPT !.instrs[instr].if_block = s.block]

\* instr->flow.else_block = <the block push_block() returned>
set_else_block(s, instr) == [s EXCEPT !.instrs[instr].else_block = s.block]

\* trans_if(): the registers of the meta:flow just created, and the scope
trans_if_flow(s, tmp) ==
    set_if_block(
        push_block(
            push_branch(
                add_src_reg(ir3_reg_create(s, s.current_instr, 0, {}),
                            s.current_instr, tmp.src, 0),
                s.current_instr)),
        s.current_instr)

\* trans_if(): the registers of the add.s just created, and the rest
trans_if_add(s, tmp) ==
    trans_if_flow(
        instr_create(
            ir3_reg_create_iim(
                add_src_reg(add_dst_reg(s, s.current_instr, tmp.dst, 0),
                            s.current_instr, tmp.src, 0),
                s.current_instr, -1),
            -1, "META_FLOW"),
        tmp)

\* trans_if(): the registers of the cmps.f just created, and the rest
trans_if_cmps(s, src, constval, tmp) ==
    trans_if_add(
        instr_create(
            set_condition(
                add_src_reg(
                    add_src_reg(add_dst_reg(s, s.current_instr, tmp.dst, 0),
                                s.current_instr, src, src_swiz(src, 0)),
                    s.current_instr, constval, src_swiz(constval, 0)),
                "IR3_COND_EQ"),
            2, "OPC_ADD_S"),
        tmp)

\* trans_if(): src, unconst'ed if need be, is in ret
trans_if_src(s, constval, tmp) ==
    trans_if_cmps(instr_create(s, 2, "OPC_CMPS_F"), s.ret, constval, tmp)

\* trans_if() after get_internal_temp(), whose temporary is in ret
trans_if_tmp(s, inst, constval) ==
    trans_if_src(
        IF is_const(inst.Src[1]) THEN get_unconst(s, inst.Src[1])
        ELSE Ret(s, inst.Src[1]),
        constval, s.ret)

\* trans_if() after get_immediate(), whose constval is in ret
trans_if_constval(s, inst) ==
    trans_if_tmp(get_internal_temp(s), inst, s.ret)

trans_if(s, t, inst) == trans_if_constval(get_immediate(s, fui_0_0), inst)

IsFlow(s, instr) ==
    s.instrs[instr].category = -1 /\ s.instrs[instr].opc = "META_FLOW"

\* trans_else() after pop_branch(), whose instruction is in ret
trans_else_instr(s) ==
    set_else_block(
        push_block(push_branch(compile_assert(s, IsFlow(s, s.ret)), s.ret)),
        s.ret)

trans_else(s, t, inst) == trans_else_instr(pop_branch(pop_block(s)))

RECURSIVE find_temporary(_, _, _)
find_temporary(s, block, n) ==
    IF s.blocks[block].parent # NULL /\ s.blocks[block].temporaries[n] = NULL
    THEN find_temporary(s, s.blocks[block].parent, n)
    ELSE s.blocks[block].temporaries[n]

RECURSIVE find_output(_, _, _)
find_output(s, block, n) ==
    IF s.blocks[block].parent # NULL /\ s.blocks[block].outputs[n] = NULL
    THEN find_output(s, s.blocks[block].parent, n)
    ELSE s.blocks[block].outputs[n]

\* create_phi(): the registers of the phi just created
create_phi_regs(s, cond, a, b) ==
    ir3_reg_create_ssa(
        ir3_reg_create_ssa(
            ir3_reg_create_ssa(ir3_reg_create(s, s.current_instr, 0, {}),
                               s.current_instr, cond),
            s.current_instr, a),
        s.current_instr, b)

\* create_phi() after if (!a): the same for b, and the phi
create_phi_b(s, cond, a, b) ==
    create_phi_regs(
        instr_create(IF b = NULL THEN create_immed(s, fui_0_0) ELSE s,
                     -1, "META_PHI"),
        cond, a, IF b = NULL THEN Len(s.instrs) + 1 ELSE b)

\* create_phi(ctx, cond, a, b): the new phi is LastInstr(result)
create_phi(s, cond, a, b) ==
    create_phi_b(
        IF a = NULL THEN create_immed(compile_assert(s, cond # NULL), fui_0_0)
        ELSE compile_assert(s, cond # NULL),
        cond, IF a = NULL THEN Len(s.instrs) + 1 ELSE a, b)

Slots(s, block, file) ==
    IF file = "TEMPORARY" THEN s.blocks[block].temporaries
    ELSE s.blocks[block].outputs

\* find_temporary() or find_output()
find_slot(s, block, file, n) ==
    IF file = "TEMPORARY" THEN find_temporary(s, block, n)
    ELSE find_output(s, block, n)

\* the number of slots a block has written: the size trans_endif() allocates
\* for the block's new output list
CountWritten(s, block, ifb) ==
    Cardinality({i \in 0..(s.blocks[ifb].ntemporaries - 1) :
                    s.blocks[block].temporaries[i] # NULL})
    + Cardinality({i \in 0..(s.blocks[ifb].noutputs - 1) :
                    s.blocks[block].outputs[i] # NULL})

\* the locals of trans_endif(), kept in ret while its loops run: instr is
\* in ret when it starts
trans_endif_locals(s) ==
    LET instr == s.ret
        ifb   == s.instrs[instr].if_block
        elseb == IF s.instrs[instr].else_block # NULL
                 THEN s.instrs[instr].else_block
                 ELSE s.blocks[ifb].parent
    IN  Ret(compile_assert(s, IsFlow(s, instr)),
            [instr |-> instr, ifb |-> ifb, elseb |-> elseb,
             has_else |-> elseb # s.blocks[ifb].parent,
             ifout |-> <<>>, elseout |-> <<>>,
             ifalloc |-> CountWritten(s, ifb, ifb),
             elsealloc |-> CountWritten(s, elseb, ifb)])

\* ctx->block->temporaries[i] = phi, or outputs[i], phi being the
\* instruction created last; a and b join the two new output lists, and a
\* store past the end of a list lands outside it
endif_set_phi(s, file, i, a, b) ==
    LET e == s.ret
        x == [s EXCEPT
                !.oob = @ \/ Len(e.ifout) >= e.ifalloc
                          \/ (e.has_else /\ Len(e.elseout) >= e.elsealloc),
                !.ret.ifout = Append(@, a),
                !.ret.elseout = IF e.has_else THEN Append(@, b) ELSE @]
    IN  IF file = "TEMPORARY"
        THEN [x EXCEPT !.blocks[s.block].temporaries[i] = LastInstr(s)]
        ELSE [x EXCEPT !.blocks[s.block].outputs[i] = LastInstr(s)]

\* the phi of slot i, the boundary nodes being made: a2 is the one of the
\* if side, and the one of the else side, if any, is the instruction
\* created last
endif_phi(s, file, i, a, b, a2) ==
    endif_set_phi(
        create_phi(s, s.ret.instr, a2,
                   IF s.ret.has_else THEN LastInstr(s) ELSE b),
        file, i, a, b)

\* the body of a phi loop for slot i, a and b being what the two sides join
endif_outputs(s, file, i, a, b) ==
    endif_phi(
        IF s.ret.has_else
        THEN create_output(
                create_output(s, s.ret.ifb, a, Len(s.ret.ifout)),
                s.ret.elseb, b, Len(s.ret.elseout))
        ELSE create_output(s, s.ret.ifb, a, Len(s.ret.ifout)),
        file, i, a, b, Len(s.instrs) + 1)

\* one turn of a phi loop
endif_slot(s, file, i) ==
    LET e  == s.ret
        a0 == Slots(s, e.ifb, file)[i]
        b0 == Slots(s, e.elseb, file)[i]
    IN  IF a0 # NULL \/ (e.has_else /\ b0 # NULL)
        THEN endif_outputs(s, file, i,
                IF a0 # NULL THEN a0 ELSE find_slot(s, e.ifb, file, i),
                IF b0 # NULL THEN b0 ELSE find_slot(s, e.elseb, file, i))
        ELSE s

\* one of the two phi loops of trans_endif(), slots i..last of file
RECURSIVE endif_phis(_, _, _, _)
endif_phis(s, file, i, last) ==
    IF i > last \/ ~Ready(s) THEN s
    ELSE endif_phis(endif_slot(s, file, i), file, i + 1, last)

ListToArray(l) == [k \in 0..(Len(l) - 1) |-> l[k + 1]]

\* the end of trans_endif(): the blocks' output lists are replaced
trans_endif_outputs(s) ==
    LET e == s.ret
        x == [s EXCEPT !.blocks[e.ifb].noutputs = Len(e.ifout),
                       !.blocks[e.ifb].outputs = ListToArray(e.ifout)]
    IN  IF e.has_else
        THEN [x EXCEPT !.blocks[e.elseb].noutputs = Len(e.elseout),
                       !.blocks[e.elseb].outputs = ListToArray(e.elseout)]
        ELSE x

\* the two phi loops, with the locals in ret
trans_endif_loops(s) ==
    trans_endif_outputs(
        endif_phis(
            endif_phis(s, "TEMPORARY", 0,
                       s.blocks[s.ret.ifb].ntemporaries - 1),
            "OUTPUT", 0, s.blocks[s.ret.ifb].noutputs - 1))

trans_endif(s, t, inst) ==
    trans_endif_loops(trans_endif_locals(pop_branch(pop_block(s))))

(***************************************************************************)
(* trans_arl().                                                            *)
(***************************************************************************)
\* add_dst_reg(..)->flags |= IR3_REG_HALF, on the register of instr made last
set_half(s, instr) ==
    [s EXCEPT !.instrs[instr].regs[LastReg(s, instr)].flags = @ \cup {"HALF"}]

\* the half destination and half source of the instruction just created
trans_arl_regs(s, dst, dchan, src, schan) ==
    set_half(
        add_src_reg(
            set_half(add_dst_reg(s, s.current_instr, dst, dchan),
                     s.current_instr),
            s.current_instr, src, schan),
        s.current_instr)

\* mova a0, Rtmp
trans_arl_mova(s, inst, tmp, chan) ==
    trans_arl_regs(s, inst.Dst, 0, tmp.src, chan)

\* shl.b Rtmp, Rtmp, 2, and the rest
trans_arl_shl(s, inst, tmp, chan) ==
    trans_arl_mova(
        set_cat1_types(
            instr_create(
                ir3_reg_create_iim(
                    trans_arl_regs(s, tmp.dst, chan, tmp.src, chan),
                    s.current_instr, 2),
                1, "OPC_0"),
            "TYPE_S16", "TYPE_S16"),
        inst, tmp, chan)

\* cov Rtmp, Rsrc, and the rest
trans_arl_cov(s, inst, tmp, chan) ==
    trans_arl_shl(
        instr_create(
            add_src_reg(
                set_half(add_dst_reg(s, s.current_instr, tmp.dst, chan),
                         s.current_instr),
                s.current_instr, inst.Src[1], chan),
            2, "OPC_SHL_B"),
        inst, tmp, chan)

\* trans_arl() after get_internal_temp_hr(), whose temporary is in ret
trans_arl_tmp(s, inst, chan) ==
    trans_arl_cov(
        set_cat1_types(instr_create(s, 1, "OPC_0"), get_ftype(s), "TYPE_S16"),
        inst, s.ret, chan)

trans_arl(s, t, inst) ==
    trans_arl_tmp(
        get_internal_temp_hr(compile_assert(s, inst.Dst.File = "ADDRESS")),
        inst, inst.Src[1].Swizzle[1])

(***************************************************************************)
(* trans_samp().                                                           *)
(***************************************************************************)
\* order[]: the coordinate component wanted at each position, -1 for none
samp_order(t, tex) ==
    CASE t.arg = "TEX" -> IF tex = "TGSI_TEXTURE_2D" THEN <<0, 1, -1, -1>>
                          ELSE <<0, 1, 2, -1>>
      [] t.arg = "TXP" -> IF tex = "TGSI_TEXTURE_2D" THEN <<0, 1, 3, -1>>
                          ELSE <<0, 1, 2, 3>>
      [] OTHER -> <<-1, -1, -1, -1>>

samp_src_wrmask(t, tex) ==
    CASE t.arg = "TEX" -> IF tex = "TGSI_TEXTURE_2D" THEN TGSI_WRITEMASK_XY
                          ELSE TGSI_WRITEMASK_XYZ
      [] t.arg = "TXP" -> IF tex = "TGSI_TEXTURE_2D" THEN TGSI_WRITEMASK_XYZ
                          ELSE TGSI_WRITEMASK_XYZW
      [] OTHER -> 0

samp_flags(t, tex) ==
    (IF t.arg = "TXP" THEN {"P"} ELSE {})
    \cup (IF tex \in {"TGSI_TEXTURE_3D", "TGSI_TEXTURE_CUBE"} THEN {"3D"}
          ELSE {})

\* the loop over order[] runs for positions from..(samp_count - 1)
samp_count(order) ==
    IF order[1] < 0 THEN 0
    ELSE IF order[2] < 0 THEN 1
    ELSE IF order[3] < 0 THEN 2
    ELSE IF order[4] < 0 THEN 3
    ELSE 4

\* needs_mov: the coordinate is a constant, or position i does not hold
\* component swizzle(0) + order[i]
samp_needs_mov(coord, order) ==
    \/ is_rel_or_const(coord)
    \/ \E i \in 1..(samp_count(order) - 1) :
          src_swiz(coord, i) # src_swiz(coord, 0) + order[i + 1]

\* one shuffle mov: the registers of the mov just created
samp_mov_regs(s, coord, order, tmp, j) ==
    add_src_reg(add_dst_reg(s, s.current_instr, tmp.dst, j),
                s.current_instr, coord, src_swiz(coord, order[j + 1]))

\* the shuffle movs of positions j..
RECURSIVE samp_movs(_, _, _, _, _)
samp_movs(s, coord, order, tmp, j) ==
    IF j >= samp_count(order) \/ ~Ready(s) THEN s
    ELSE samp_movs(
            samp_mov_regs(
                set_cat1_types(instr_create(s, 1, "OPC_0"),
                               get_ftype(s), get_ftype(s)),
                coord, order, tmp, j),
            coord, order, tmp, j + 1)

\* the registers of the sample instruction just created
samp_regs(s, inst, coord, src_wrmask) ==
    add_src_reg_wrmask(
        add_dst_reg_wrmask(s, s.current_instr, inst.Dst, 0,
                           inst.Dst.WriteMask),
        s.current_instr, coord, coord.Swizzle[1], src_wrmask)

\* the sample instruction: its cat5 fields and flags
samp_instr(s, t, inst, flags) ==
    [s EXCEPT !.instrs[s.current_instr].cat5 =
                  [type |-> get_ftype(s), samp |-> inst.Src[2].Index,
                   tex |-> inst.Src[2].Index],
              !.instrs[s.current_instr].flags = @ \cup flags]

\* trans_samp() from the sample instruction on, coord being settled
samp_sample(s, t, inst, coord) ==
    samp_regs(
        samp_instr(instr_create(s, 5, t.opc), t, inst,
                   samp_flags(t, inst.Texture)),
        inst, coord, samp_src_wrmask(t, inst.Texture))

\* trans_samp() with the shuffle: the internal temporary is in ret
samp_shuffle(s, t, inst) ==
    samp_sample(
        samp_movs(s, inst.Src[1], samp_order(t, inst.Texture), s.ret, 0),
        t, inst, s.ret.src)

trans_samp(s, t, inst) ==
    IF samp_needs_mov(inst.Src[1], samp_order(t, inst.Texture))
    THEN samp_shuffle(
            get_internal_temp(compile_assert(s, t.arg \in {"TEX", "TXP"})),
            t, inst)
    ELSE samp_sample(compile_assert(s, t.arg \in {"TEX", "TXP"}), t, inst,
                     inst.Src[1])

(***************************************************************************)
(* The translater table and the token loop of compile_instructions().      *)
(***************************************************************************)
Xl(fxn, n, opc, hopc) == [fxn |-> fxn, tgsi_opc |-> n, opc |-> opc,
                          hopc |-> hopc, arg |-> ""]

translaters(n) ==
    CASE n = "MOV"   -> Xl("instr_cat1", n, "", "")
      [] n = "RCP"   -> Xl("instr_cat4", n, "OPC_RCP", "")
      [] n = "RSQ"   -> Xl("instr_cat4", n, "OPC_RSQ", "")
      [] n = "SQRT"  -> Xl("instr_cat4", n, "OPC_SQRT", "")
      [] n = "MUL"   -> Xl("instr_cat2", n, "OPC_MUL_F", "")
      [] n = "ADD"   -> Xl("instr_cat2", n, "OPC_ADD_F", "")
      [] n = "SUB"   -> Xl("instr_cat2", n, "OPC_ADD_F", "")
      [] n = "MIN"   -> Xl("instr_cat2", n, "OPC_MIN_F", "")
      [] n = "MAX"   -> Xl("instr_cat2", n, "OPC_MAX_F", "")
      [] n = "MAD"   -> Xl("instr_cat3", n, "OPC_MAD_F32", "OPC_MAD_F16")
      [] n = "TRUNC" -> Xl("instr_cat2", n, "OPC_TRUNC_F", "")
      [] n = "CLAMP" -> Xl("trans_clamp", n, "", "")
      [] n = "ARL"   -> Xl("trans_arl", n, "", "")
      [] n = "FLR"   -> Xl("instr_cat2", n, "OPC_FLOOR_F", "")
      [] n = "ROUND" -> Xl("instr_cat2", n, "OPC_RNDNE_F", "")
      [] n = "EX2"   -> Xl("instr_cat4", n, "OPC_EXP2", "")
      [] n = "LG2"   -> Xl("instr_cat4", n, "OPC_LOG2", "")
      [] n = "ABS"   -> Xl("instr_cat2", n, "OPC_ABSNEG_F", "")
      [] n = "COS"   -> Xl("instr_cat4", n, "OPC_COS", "")
      [] n = "SIN"   -> Xl("instr_cat4", n, "OPC_SIN", "")
      [] n = "TEX"   -> [Xl("trans_samp", n, "OPC_SAM", "") EXCEPT !.arg = "TEX"]
      [] n = "TXP"   -> [Xl("trans_samp", n, "OPC_SAM", "") EXCEPT !.arg = "TXP"]
      [] n \in {"SGT", "SLT", "SGE", "SLE", "SNE", "SEQ", "CMP"}
                     -> Xl("trans_cmp", n, "", "")
      [] n = "IF"    -> Xl("trans_if", n, "", "")
      [] n = "ELSE"  -> Xl("trans_else", n, "", "")
      [] n = "ENDIF" -> Xl("trans_endif", n, "", "")
      [] n = "END"   -> Xl("instr_cat0", n, "OPC_END", "")
      [] n = "KILL"  -> Xl("instr_cat0", n, "OPC_KILL", "")
      [] OTHER       -> Xl("", n, "", "")

\* the Saturate switch
lower_saturate(s, inst) ==
    CASE inst.Saturate = "TGSI_SAT_ZERO_ONE" ->
           create_clamp_imm(s, inst.Dst, fui_0_0, fui_1_0)
      [] inst.Saturate = "TGSI_SAT_MINUS_PLUS_ONE" ->
           create_clamp_imm(s, inst.Dst, fui_m1_0, fui_1_0)
      [] OTHER -> s

\* the TGSI_TOKEN_TYPE_INSTRUCTION case after t->fxn() has returned
lower_tail(s, inst) ==
    instr_finish(
        lower_saturate(
            IF translaters(inst.Opcode).fxn # ""
            THEN [s EXCEPT !.num_internal_temps = 0]
            ELSE s,
            inst))

(***************************************************************************)
(* Declarations and immediates.                                            *)
(***************************************************************************)
\* ctx->block->outputs[n] = <the instruction created last>
set_output_last(s, n) ==
    [s EXCEPT !.blocks[s.block].outputs[n] = LastInstr(s)]

\* the j loop of decl_out() for register i, components j..3
RECURSIVE decl_out_from(_, _, _)
decl_out_from(s, i, j) ==
    IF j > 3 \/ ~Ready(s) THEN s
    ELSE decl_out_from(set_output_last(create_immed(s, fui_0_0), i * 4 + j),
                       i, j + 1)

\* decl_out() of the range first..last
RECURSIVE decl_out(_, _, _)
decl_out(s, first, last) ==
    IF first > last THEN s
    ELSE decl_out(decl_out_from(s, first, 0), first + 1, last)

\* the three registers of the bary.f just created
decl_in_bary(s, r, inloc) ==
    [ir3_reg_create(
        ir3_reg_create(ir3_reg_create(s, s.current_instr, r, HalfFlag(s)),
                       s.current_instr, 0, {"IMMED"}),
        s.current_instr, regid(0, 0), {"SSA"})
        EXCEPT !.instrs[s.current_instr].regs[2].iim_val = inloc - 8,
               !.instrs[s.current_instr].regs[3].wrmask = 3,
               !.instrs[s.current_instr].regs[3].instr = s.frag_pos]

\* ctx->block->inputs[n] = <the instruction created last>
set_input_last(s, n) ==
    [s EXCEPT !.blocks[s.block].inputs[n] = LastInstr(s)]

\* the j loop of decl_in() for register i, components j..3
RECURSIVE decl_in_from(_, _, _, _)
decl_in_from(s, i, inloc, j) ==
    IF j > 3 \/ ~Ready(s) THEN s
    ELSE decl_in_from(
            set_input_last(
                IF s.type = "FRAGMENT"
                THEN decl_in_bary(instr_create(s, 2, "OPC_BARY_F"),
                                  regid(i + base_reg(s, "INPUT"), 0) + j,
                                  inloc + j)
                ELSE create_input(s, s.block, NULL, i * 4 + j),
                i * 4 + j),
            i, inloc, j + 1)

\* decl_in() of the range first..last
RECURSIVE decl_in(_, _, _)
decl_in(s, first, last) ==
    IF first > last THEN s
    ELSE decl_in(decl_in_from([s EXCEPT !.next_inloc = @ + 4], first,
                              s.next_inloc, 0),
                 first + 1, last)

\* the TGSI_TOKEN_TYPE_IMMEDIATE case: the vec4 imm
decl_immediate(s, imm) ==
    [s EXCEPT !.immediates_count = @ + 1,
              !.immediates =
                  [k \in (4 * s.immediates_count)..(4 * s.immediates_count + 3)
                      |-> imm[k - 4 * s.immediates_count + 1]] @@ @]

\* ctx->frag_pos: the meta:fi just created and its three registers
compile_frag_pos(s) ==
    [ir3_reg_create(
        ir3_reg_create(ir3_reg_create(s, LastInstr(s), 0, {}),
                       LastInstr(s), 0, {"SSA"}),
        LastInstr(s), 0, {"SSA"})
        EXCEPT !.frag_pos = LastInstr(s)]

\* ... in the block that push_block() has just made current
compile_frag_pos_instr(s) ==
    compile_frag_pos(ir3_instr_create(s, s.block, -1, "META_FI"))

\* the prologue of compile_instructions()
compile_start(s) ==
    IF s.type = "FRAGMENT" THEN compile_frag_pos_instr(push_block(s))
    ELSE push_block(s)

\* the epilogue of compile_instructions(), for input n of a fragment
\* shader: the meta:input created last becomes the block's input n and the
\* source of register n + 1 of ctx->frag_pos
compile_end_input(s, n) ==
    [s EXCEPT !.blocks[s.block].inputs[n] = LastInstr(s),
              !.instrs[s.frag_pos].regs[n + 2].instr = LastInstr(s)]

\* the epilogue of compile_instructions()
compile_end(s) ==
    IF s.type = "FRAGMENT"
    THEN compile_end_input(
            create_input(
                compile_end_input(
                    create_input([s EXCEPT !.blocks[s.block].ninputs = 2],
                                 s.block, NULL, 0),
                    0),
                s.block, NULL, 1),
            1)
    ELSE s

(***************************************************************************)
(* The state machine.  The operators above work on one record s holding    *)
(* the compile context, the shader object and the two heaps.               *)
(***************************************************************************)
S ==
    [instrs |-> instrs, blocks |-> blocks,
     block |-> ctx.block, current_instr |-> ctx.current_instr,
     output_updates |-> ctx.output_updates, atomic |-> ctx.atomic,
     num_internal_temps |-> ctx.num_internal_temps,
     internal_temps |-> ctx.internal_temps,
     immediate_idx |-> ctx.immediate_idx, next_inloc |-> ctx.next_inloc,
     branch |-> ctx.branch, tmp_dst |-> ctx.tmp_dst, tmp_src |-> ctx.tmp_src,
     frag_pos |-> ctx.frag_pos, err |-> ctx.err, oob |-> ctx.oob,
     type |-> so.type, half_precision |-> so.half_precision,
     immediates |-> so.immediates, immediates_count |-> so.immediates_count,
     ret |-> NULL]

Commit(s) ==
    /\ instrs' = s.instrs
    /\ blocks' = s.blocks
    /\ ctx' = [block |-> s.block, current_instr |-> s.current_instr,
               output_updates |-> s.output_updates, atomic |-> s.atomic,
               num_internal_temps |-> s.num_internal_temps,
               internal_temps |-> s.internal_temps,
               immediate_idx |-> s.immediate_idx,
               next_inloc |-> s.next_inloc, branch |-> s.branch,
               tmp_dst |-> s.tmp_dst, tmp_src |-> s.tmp_src,
               frag_pos |-> s.frag_pos, err |-> s.err, oob |-> s.oob]
    /\ so' = [so EXCEPT !.type = s.type,
                         !.half_precision = s.half_precision,
                         !.immediates = s.immediates,
                         !.immediates_count = s.immediates_count]

NoDst == [File |-> "NULL", Index |-> 0, WriteMask |-> 0]

NoInst == [Opcode |-> "", Dst |-> NoDst, Src |-> <<>>, Saturate |-> ""]

\* the locals of a vectorize() call in progress, with what the handler
\* that made the call holds at that point
NoFrame ==
    [inst |-> NoInst, d |-> [dst |-> NoDst, tmp |-> FALSE], instr |-> NULL,
     args |-> <<>>, i |-> 0, n |-> 0, group |-> <<>>, start |-> <<>>,
     first |-> 0, pre |-> <<>>, preimm |-> 0]

\* what is remembered of the run: the number of tokens lowered; the last
\* token, the heap sizes before it and after its handler, the blocks, the
\* current block and the pool size before it; for each open IF the blocks
\* and current block before it; the IF that the last token closed; and
\* the requests made of the immediate pool; and the number of internal
\* temporaries the last token's handler requested
NoHist ==
    [ntok |-> 0, inst |-> NoInst, first |-> 0, mid |-> 0, pre |-> <<>>,
     preblock |-> NULL, preimm |-> 0, ifpre |-> <<>>, closed |-> <<>>,
     req |-> <<>>, ntemps |-> 0, midblocks |-> <<>>]

\* the compile context as compile_init() leaves it
compile_init_ctx ==
    [block |-> NULL, current_instr |-> NULL,
     output_updates |-> <<>>, atomic |-> FALSE,
     num_internal_temps |-> 0,
     internal_temps |-> [n \in 1..InternalTempsSize |-> NoSrc],
     immediate_idx |-> 4 * (file_max.IMMEDIATE + 1),
     next_inloc |-> 8, branch |-> <<>>, tmp_dst |-> NoDst,
     tmp_src |-> NoSrc, frag_pos |-> NULL, err |-> FALSE,
     oob |-> FALSE]

\* compile_init(): the context of a shader of the given kind and precision
InitWith(kinds, precisions) ==
    /\ instrs = <<>>
    /\ blocks = <<>>
    /\ ctx = compile_init_ctx
    /\ so \in [type : kinds, half_precision : precisions,
               immediates : {<<>>}, immediates_count : {0}]
    /\ pc = "init"
    /\ frame = NoFrame
    /\ hist = NoHist

\* compile_instructions(): the prologue
Start ==
    /\ pc = "init"
    /\ Commit(compile_start(S))
    /\ pc' = "decl_in"
    /\ UNCHANGED <<frame, hist>>

\* the declaration of IN[0..file_max]
DeclIn ==
    /\ pc = "decl_in"
    /\ Commit(decl_in(S, 0, file_max.INPUT))
    /\ pc' = "decl_out"
    /\ UNCHANGED <<frame, hist>>

\* the declaration of OUT[0..file_max]
DeclOut ==
    /\ pc = "decl_out"
    /\ Commit(decl_out(S, 0, file_max.OUTPUT))
    /\ pc' = "decl_imm"
    /\ UNCHANGED <<frame, hist>>

\* the immediate token IMM[0], one of the vec4s of imms
DeclImm(imms) ==
    /\ pc = "decl_imm"
    /\ \E imm \in imms : Commit(decl_immediate(S, imm))
    /\ pc' = "instr"
    /\ UNCHANGED <<frame, hist>>

\* IF, ELSE and ENDIF come well nested, at most MaxDepth deep
WellNested(inst) ==
    /\ inst.Opcode = "IF" => Len(ctx.branch) < MaxDepth
    /\ inst.Opcode = "ELSE" =>
          /\ ctx.branch # <<>>
          /\ instrs[ctx.branch[Len(ctx.branch)]].else_block = NULL
    /\ inst.Opcode = "ENDIF" => ctx.branch # <<>>

HistAfter(inst, first, mid, pre, preimm, ntemps) ==
    [ntok |-> hist.ntok + 1, inst |-> inst, first |-> first, mid |-> mid,
     pre |-> pre, preblock |-> ctx.block, preimm |-> preimm,
     ifpre |-> CASE inst.Opcode = "IF" ->
                      Append(hist.ifpre, [blocks |-> blocks,
                                          block |-> ctx.block])
                 [] inst.Opcode = "ENDIF" ->
                      SubSeq(hist.ifpre, 1, Len(hist.ifpre) - 1)
                 [] OTHER -> hist.ifpre,
     closed |-> IF inst.Opcode = "ENDIF"
                THEN <<[flow |-> ctx.branch[Len(ctx.branch)],
                        before |-> hist.ifpre[Len(hist.ifpre)]]>>
                ELSE <<>>,
     req |-> hist.req, ntemps |-> ntemps, midblocks |-> <<>>]

\* the live values that the handler of a token with a saturate modifier
\* left for the clamp: its queued updates are applied by the instr_create()
\* that create_clamp() starts with, before the clamp reads anything
MidBlocks(inst, s) ==
    IF inst.Saturate \in {"TGSI_SAT_ZERO_ONE", "TGSI_SAT_MINUS_PLUS_ONE"}
    THEN ApplyUpdates(s.blocks, s.output_updates, 1)
    ELSE <<>>

\* one instruction token, lowered whole: s is the state its handler left
Token(inst, limit, s) ==
    /\ pc = "instr"
    /\ hist.ntok < limit
    /\ WellNested(inst)
    /\ Commit(lower_tail(s, inst))
    /\ hist' = [HistAfter(inst, Len(instrs), Len(s.instrs), blocks,
                          ctx.immediate_idx, s.num_internal_temps)
                   EXCEPT !.midblocks = MidBlocks(inst, s)]
    /\ UNCHANGED <<pc, frame>>

Fxn(inst) == translaters(inst.Opcode).fxn

Cat1(insts, limit) ==
    \E inst \in insts :
        /\ Fxn(inst) = "instr_cat1"
        /\ Token(inst, limit, instr_cat1(S, translaters(inst.Opcode), inst))

Cat2(insts, limit) ==
    \E inst \in insts :
        /\ Fxn(inst) = "instr_cat2"
        /\ Token(inst, limit, instr_cat2(S, translaters(inst.Opcode), inst))

Cat3(insts, limit) ==
    \E inst \in insts :
        /\ Fxn(inst) = "instr_cat3"
        /\ Token(inst, limit, instr_cat3(S, translaters(inst.Opcode), inst))

Cat4(insts, limit) ==
    \E inst \in insts :
        /\ Fxn(inst) = "instr_cat4"
        /\ Token(inst, limit, instr_cat4(S, translaters(inst.Opcode), inst))

Clamp(insts, limit) ==
    \E inst \in insts :
        /\ Fxn(inst) = "trans_clamp"
        /\ Token(inst, limit, trans_clamp(S, translaters(inst.Opcode), inst))

Cmp(insts, limit) ==
    \E inst \in insts :
        /\ Fxn(inst) = "trans_cmp"
        /\ Token(inst, limit, trans_cmp(S, translaters(inst.Opcode), inst))

If(insts, limit) ==
    \E inst \in insts :
        /\ Fxn(inst) = "trans_if"
        /\ Token(inst, limit, trans_if(S, translaters(inst.Opcode), inst))

ElseInst == [NoInst EXCEPT !.Opcode = "ELSE", !.Saturate = "TGSI_SAT_NONE"]

Else(limit) ==
    Token(ElseInst, limit, trans_else(S, translaters("ELSE"), ElseInst))

EndifInst == [NoInst EXCEPT !.Opcode = "ENDIF", !.Saturate = "TGSI_SAT_NONE"]

Endif(limit) ==
    Token(EndifInst, limit, trans_endif(S, translaters("ENDIF"), EndifInst))

(***************************************************************************)
(* A category 2 token taken one step of vectorize() at a time: the call    *)
(* of instr_cat2() up to the component loop, each turn of the loop, the    *)
(* return of vectorize(), and the rest of the token.                       *)
(***************************************************************************)
\* vectorize() is entered from the state b that instr_cat2_begin() left
VecEnter(inst, b) ==
    /\ Commit(vectorize_start(b, b.current_instr, b.ret.d.dst, b.ret.args))
    /\ frame' = [inst |-> inst, d |-> b.ret.d, instr |-> b.current_instr,
                 args |-> b.ret.args, i |-> 0, n |-> 0, group |-> <<>>,
                 start |-> b.blocks, first |-> Len(instrs),
                 pre |-> blocks, preimm |-> ctx.immediate_idx]

VecBegin(insts, limit) ==
    /\ pc = "instr"
    /\ hist.ntok < limit
    /\ \E inst \in insts :
         /\ Fxn(inst) = "instr_cat2"
         /\ VecEnter(inst,
                     instr_cat2_begin(S, translaters(inst.Opcode), inst))
    /\ pc' = "vectorize"
    /\ UNCHANGED hist

\* a turn of the component loop has left the state s
VecTurn(s) ==
    /\ Commit(s)
    /\ frame' = [frame EXCEPT !.i = @ + 1, !.n = @ + 1,
                              !.group = Append(@, s.current_instr)]

VecStep ==
    /\ pc = "vectorize"
    /\ frame.i <= 3
    /\ IF Bit(frame.d.dst.WriteMask, frame.i)
       THEN VecTurn(vectorize_comp(S, frame.instr, frame.d.dst, frame.args,
                                   frame.i, frame.n))
       ELSE /\ UNCHANGED <<instrs, blocks, ctx, so>>
            /\ frame' = [frame EXCEPT !.i = @ + 1]
    /\ UNCHANGED <<pc, hist>>

VecEnd ==
    /\ pc = "vectorize"
    /\ frame.i > 3
    /\ Commit(instr_atomic_end(S))
    /\ pc' = "vectorized"
    /\ UNCHANGED <<frame, hist>>

\* the handler has returned, leaving the state s
VecReturn(s) ==
    /\ Commit(lower_tail(s, frame.inst))
    /\ hist' = HistAfter(frame.inst, frame.first, Len(s.instrs),
                         frame.pre, frame.preimm, s.num_internal_temps)

VecDone ==
    /\ pc = "vectorized"
    /\ VecReturn(put_dst(S, frame.inst, frame.d))
    /\ pc' = "instr"
    /\ frame' = NoFrame

\* get_immediate(v) has left the state s
Requested(v, s) ==
    /\ Commit(s)
    /\ hist' = [hist EXCEPT !.req = Append(@,
                   [val |-> v, reg |-> s.ret,
                    before |-> ctx.immediate_idx,
                    after |-> s.immediate_idx])]

\* one request of the immediate pool, as the handlers make them
GetImmediate(vals, limit) ==
    /\ pc = "instr"
    /\ Len(hist.req) < limit
    /\ \E v \in vals : Requested(v, get_immediate(S, v))
    /\ UNCHANGED <<pc, frame>>

(***************************************************************************)
(* Token streams.                                                          *)
(***************************************************************************)
Dst(file, mask) == [File |-> file, Index |-> 0, WriteMask |-> mask]

Src(file, swz, neg) ==
    [File |-> file, Index |-> 0, Absolute |-> FALSE, Negate |-> neg,
     Swizzle |-> swz]

Inst(opc, dst, srcs, sat) ==
    [Opcode |-> opc, Dst |-> dst, Src |-> srcs, Saturate |-> sat]

SWZ_XXXX == <<0, 0, 0, 0>>
SWZ_YXWZ == <<1, 0, 3, 2>>

K0 == Src("CONST", IDENTITY_SWIZZLE, FALSE)
I0 == Src("INPUT", IDENTITY_SWIZZLE, FALSE)
T0 == Src("TEMPORARY", IDENTITY_SWIZZLE, FALSE)
T0_YXWZ == Src("TEMPORARY", SWZ_YXWZ, FALSE)
T0_XXXX == Src("TEMPORARY", SWZ_XXXX, FALSE)

\* the shader's IMM[0]
PlainImms == {<<fui_0_0, fui_1_0, fui_4_0, fui_m4_0>>}

\* straight-line streams: every translator that has a destination, with
\* the destination among its sources (trivially or not) and without
StraightMasks == {TGSI_WRITEMASK_XYZW, TGSI_WRITEMASK_XY}

StraightInsts ==
    {Inst("MOV", Dst("TEMPORARY", m), <<a>>, "TGSI_SAT_NONE") :
        m \in StraightMasks, a \in {I0, T0_YXWZ}}
    \cup {Inst("MOV", Dst("OUTPUT", TGSI_WRITEMASK_XY), <<T0>>,
               "TGSI_SAT_MINUS_PLUS_ONE"),
          Inst("MOV", Dst("TEMPORARY", TGSI_WRITEMASK_XYZW),
               <<[I0 EXCEPT !.Negate = TRUE]>>, "TGSI_SAT_NONE")}
    \cup {Inst("ADD", Dst("TEMPORARY", m), <<a, I0>>, "TGSI_SAT_NONE") :
        m \in StraightMasks, a \in {T0, T0_YXWZ}}
    \cup {Inst("MAD", Dst("TEMPORARY", TGSI_WRITEMASK_XY), <<I0, K0, a>>,
               "TGSI_SAT_NONE") : a \in {T0_YXWZ, I0}}
    \cup {Inst("RCP", Dst("TEMPORARY", m), <<a>>, "TGSI_SAT_NONE") :
        m \in StraightMasks, a \in {T0, I0}}
    \cup {Inst("RCP", Dst("TEMPORARY", TGSI_WRITEMASK_XYZW), <<K0>>,
               "TGSI_SAT_NONE")}
    \cup {Inst("CLAMP", Dst("TEMPORARY", m), <<a, K0, I0>>, "TGSI_SAT_NONE") :
        m \in StraightMasks, a \in {T0, I0}}
    \cup {Inst("SLT", Dst("TEMPORARY", TGSI_WRITEMASK_XY), <<T0_YXWZ, I0>>,
               "TGSI_SAT_NONE"),
          Inst("CMP", Dst("TEMPORARY", TGSI_WRITEMASK_XYZW), <<I0, I0, I0>>,
               "TGSI_SAT_NONE")}

Init == InitWith({"VERTEX", "FRAGMENT"}, {FALSE, TRUE})

Next ==
    \/ Start
    \/ DeclIn
    \/ DeclOut
    \/ DeclImm(PlainImms)
    \/ Cat1(StraightInsts, MaxTokens)
    \/ Cat2(StraightInsts, MaxTokens)
    \/ Cat3(StraightInsts, MaxTokens)
    \/ Cat4(StraightInsts, MaxTokens)
    \/ Clamp(StraightInsts, MaxTokens)
    \/ Cmp(StraightInsts, MaxTokens)

Spec == Init /\ [][Next]_vars

\* control-flow streams: writes of TEMP[0].x and OUT[0].x, reads of TEMP[0].x
\* (twice in one token), and conditionals around them
FlowInsts ==
    {Inst("MOV", Dst("TEMPORARY", 1), <<I0>>, "TGSI_SAT_NONE"),
     Inst("MOV", Dst("OUTPUT", TGSI_WRITEMASK_XY), <<T0_XXXX>>,
          "TGSI_SAT_NONE"),
     Inst("IF", NoDst, <<I0>>, "TGSI_SAT_NONE")}

InitFlow == InitWith({"VERTEX"}, {FALSE})

NextFlow ==
    \/ Start
    \/ DeclIn
    \/ DeclOut
    \/ DeclImm(PlainImms)
    \/ Cat1(FlowInsts, MaxFlowTokens)
    \/ If(FlowInsts, MaxFlowTokens)
    \/ Else(MaxFlowTokens)
    \/ Endif(MaxFlowTokens)

SpecFlow == InitFlow /\ [][NextFlow]_vars

\* stepped streams: a two-operand category 2 operation under every
\* write-mask, its first operand TEMP[0] under three swizzles (so the
\* destination is among the sources, trivially or not) or IN[0], after a
\* token that gave TEMP[0] values
SeedInsts ==
    {Inst("MOV", Dst("TEMPORARY", m), <<I0>>, "TGSI_SAT_NONE") :
        m \in {TGSI_WRITEMASK_XYZW, TGSI_WRITEMASK_XY}}

VecInsts ==
    {Inst("ADD", Dst("TEMPORARY", m), <<a, K0>>, "TGSI_SAT_NONE") :
        m \in 1..15, a \in {T0, T0_YXWZ, T0_XXXX}}
    \cup {Inst("MUL", Dst("OUTPUT", m), <<I0, T0_YXWZ>>, "TGSI_SAT_NONE") :
        m \in {1, 6, 10, 15}}

InitVec == InitWith({"VERTEX"}, {FALSE})

NextVec ==
    \/ Start
    \/ DeclIn
    \/ DeclOut
    \/ DeclImm(PlainImms)
    \/ Cat1(SeedInsts, 1)
    \/ VecBegin(VecInsts, MaxVecTokens)
    \/ VecStep
    \/ VecEnd
    \/ VecDone

SpecVec == InitVec /\ [][NextVec]_vars

\* the immediate pool alone: IMM[0] and then requests of the values the
\* handlers ask for
ImmVectors == {<<fui_0_0, fui_0_0, fui_0_0, fui_0_0>>,
               <<fui_0_0, fui_1_0, fui_4_0, fui_m4_0>>}

ImmRequests == {fui_0_0, fui_1_0, fui_m1_0, fui_4_0}

InitImm == InitWith({"VERTEX"}, {FALSE})

NextImm ==
    \/ Start
    \/ DeclIn
    \/ DeclOut
    \/ DeclImm(ImmVectors)
    \/ GetImmediate(ImmRequests, MaxRequests)

SpecImm == InitImm /\ [][NextImm]_vars


(***************************************************************************)
(* compile_init() alone: the scan of a token stream reports the per-file   *)
(* maxima, and the register bases are set from them.                       *)
(***************************************************************************)
BaseFiles == {"CONST", "IMMEDIATE", "INPUT", "OUTPUT", "TEMPORARY"}

InitBases ==
    /\ instrs = <<>>
    /\ blocks = <<>>
    /\ ctx = [info_file_max |-> <<>>, base_reg |-> <<>>, immediate_idx |-> 0]
    /\ so \in [type : {"VERTEX", "FRAGMENT"}, half_precision : {FALSE, TRUE},
               immediates : {<<>>}, immediates_count : {0}]
    /\ pc = "scan"
    /\ frame = NoFrame
    /\ hist = NoHist

\* tgsi_scan_shader(tokens, &ctx->info)
ScanShader ==
    /\ pc = "scan"
    /\ \E fm \in [BaseFiles -> -1..MaxIndex] :
          ctx' = [ctx EXCEPT !.info_file_max = fm]
    /\ pc' = "bases"
    /\ UNCHANGED <<instrs, blocks, so, frame, hist>>

\* the register bases and the first free slot of the immediate pool
SetBases ==
    /\ pc = "bases"
    /\ ctx' = [ctx EXCEPT
                 !.base_reg =
                     [f \in BaseFiles |->
                         compile_init_base_reg(ctx.info_file_max, so.type,
                                               so.half_precision, f)],
                 !.immediate_idx = 4 * (ctx.info_file_max.IMMEDIATE + 1)]
    /\ pc' = "based"
    /\ UNCHANGED <<instrs, blocks, so, frame, hist>>

NextBases == ScanShader \/ SetBases

SpecBases == InitBases /\ [][NextBases]_vars

(***************************************************************************)
(* Streams that only open conditionals, one inside the other.              *)
(***************************************************************************)
DeepInsts == {Inst("IF", NoDst, <<I0>>, "TGSI_SAT_NONE")}

\* an instruction token, whatever the number of conditionals already open:
\* s is the state its handler left
DeepToken(inst, limit, s) ==
    /\ pc = "instr"
    /\ hist.ntok < limit
    /\ Commit(lower_tail(s, inst))
    /\ hist' = HistAfter(inst, Len(instrs), Len(s.instrs), blocks,
                         ctx.immediate_idx, s.num_internal_temps)
    /\ UNCHANGED <<pc, frame>>

IfDeep(insts, limit) ==
    \E inst \in insts :
        DeepToken(inst, limit, trans_if(S, translaters(inst.Opcode), inst))

InitDeep == InitWith({"VERTEX", "FRAGMENT"}, {FALSE, TRUE})

NextDeep ==
    \/ Start
    \/ DeclIn
    \/ DeclOut
    \/ DeclImm(ImmVectors)
    \/ IfDeep(DeepInsts, MaxDeepTokens)

SpecDeep == InitDeep /\ [][NextDeep]_vars

(***************************************************************************)
(* fd3_compile_shader() from call to return.  The passes that follow the   *)
(* lowering (flatten, copy propagation, depth, scheduling, register        *)
(* allocation) are other modules: of each only the result it returns to    *)
(* fd3_compile_shader() is kept, and any result is possible.               *)
(***************************************************************************)
\* the files on which indirect addressing makes compile_init() fail
FM == {"TEMPORARY", "INPUT", "OUTPUT", "IMMEDIATE", "CONST"}

\* compile_init() as it would be if it tested nothing
compile_init_unchecked(tokens) == "TGSI_PARSE_OK"

\* what compile_init() returns for a token stream of which the scan reports
\* indirect_files and which tgsi_parse_init() accepts or not
compile_init(tokens) ==
    IF tokens.indirect_files \cap FM # {} THEN "TGSI_PARSE_ERROR"
    ELSE IF ~tokens.parse_ok THEN "TGSI_PARSE_ERROR"
    ELSE "TGSI_PARSE_OK"

\* the label out: as it would be if the graph were always kept
compile_out_keep(ir, ret) == ir

\* the label out: of fd3_compile_shader(): what so->ir is on return
compile_out(ir, ret) == IF ret # 0 THEN NULL ELSE ir

\* the token streams handed to fd3_compile_shader()
CallTokens ==
    [indirect_files : { {} } \cup { {f} : f \in FM \cup {"SAMPLER"} },
     parse_ok : BOOLEAN]

\* a supported instruction, one whose opcode has no translater, and one
\* with an operand of a file that add_src_reg_wrmask() does not support
CallInsts ==
    {Inst("MOV", Dst("TEMPORARY", 1), <<I0>>, "TGSI_SAT_NONE"),
     Inst("LIT", Dst("TEMPORARY", 1), <<I0>>, "TGSI_SAT_NONE"),
     Inst("MOV", Dst("TEMPORARY", 1),
          <<Src("SAMPLER", IDENTITY_SWIZZLE, FALSE)>>, "TGSI_SAT_NONE")}

InitCall ==
    /\ instrs = <<>>
    /\ blocks = <<>>
    /\ ctx = compile_init_ctx
    /\ so \in [type : {"VERTEX", "FRAGMENT"}, half_precision : {FALSE},
               immediates : {<<>>}, immediates_count : {0}, ir : {NULL}]
    /\ pc = "call"
    /\ frame \in [tokens : CallTokens, init : {""}, ret : {0}]
    /\ hist = NoHist

\* so->ir = ir3_shader_create()
ShaderCreate ==
    /\ pc = "call"
    /\ so' = [so EXCEPT !.ir = 1]
    /\ pc' = "compile_init"
    /\ UNCHANGED <<instrs, blocks, ctx, frame, hist>>

\* compile_init(), and on failure ret = -1; goto out
CompileInit ==
    /\ pc = "compile_init"
    /\ ctx' = compile_init_ctx
    /\ frame' = [frame EXCEPT
                    !.init = compile_init(frame.tokens),
                    !.ret = IF compile_init(frame.tokens) = "TGSI_PARSE_OK"
                            THEN 0 ELSE -1]
    /\ pc' = IF compile_init(frame.tokens) = "TGSI_PARSE_OK" THEN "init"
             ELSE "out"
    /\ UNCHANGED <<instrs, blocks, so, hist>>

\* a token whose opcode has no translater
Unknown(insts, limit) ==
    \E inst \in insts :
        /\ Fxn(inst) = ""
        /\ Token(inst, limit, compile_error(S))

\* the end of the token stream: compile_instructions() returns
EndOfTokens ==
    /\ pc = "instr"
    /\ Commit(compile_end(S))
    /\ pc' = "flatten"
    /\ UNCHANGED <<frame, hist>>

\* ret = ir3_block_flatten(ctx.block)
Flatten ==
    /\ pc = "flatten"
    /\ \E r \in {-1, 0, 1} :
          /\ frame' = [frame EXCEPT !.ret = r]
          /\ pc' = IF r < 0 THEN "out" ELSE "ra"
    /\ UNCHANGED <<instrs, blocks, ctx, so, hist>>

\* ret = ir3_block_ra(ctx.block, so->type)
RegisterAlloc ==
    /\ pc = "ra"
    /\ \E r \in {-1, 0} : frame' = [frame EXCEPT !.ret = r]
    /\ pc' = "out"
    /\ UNCHANGED <<instrs, blocks, ctx, so, hist>>

\* the label out: and the return; ir3_shader_destroy() frees the heaps
Out ==
    /\ pc = "out"
    /\ so' = [so EXCEPT !.ir = compile_out(so.ir, frame.ret)]
    /\ instrs' = IF compile_out(so.ir, frame.ret) = NULL THEN <<>> ELSE instrs
    /\ blocks' = IF compile_out(so.ir, frame.ret) = NULL THEN <<>> ELSE blocks
    /\ pc' = "returned"
    /\ UNCHANGED <<ctx, frame, hist>>

NextCall ==
    \/ ShaderCreate
    \/ CompileInit
    \/ Start
    \/ DeclIn
    \/ DeclOut
    \/ DeclImm(PlainImms)
    \/ Cat1(CallInsts, MaxCallTokens)
    \/ Unknown(CallInsts, MaxCallTokens)
    \/ EndOfTokens
    \/ Flatten
    \/ RegisterAlloc
    \/ Out

SpecCall == InitCall /\ [][NextCall]_vars

(***************************************************************************)
(* The instruction emitter called step by step, as the lowering routines   *)
(* call it: instr_create(), instr_clone(), add_dst_reg(), add_src_reg(),   *)
(* ssa_dst(), instr_atomic_start() and instr_atomic_end(), in any order,   *)
(* in the shader's top scope.                                              *)
(***************************************************************************)
SWZ_YYYY == <<1, 1, 1, 1>>

StepDsts ==
    {Dst(f, m) : f \in {"TEMPORARY", "OUTPUT"}, m \in {1, 2}}

StepSrcs ==
    {Src(f, z, FALSE) : f \in {"TEMPORARY", "OUTPUT"}, z \in {SWZ_XXXX, SWZ_YYYY}}

\* the component a single-bit write mask names
MaskChan(mask) == CHOOSE c \in 0..3 : mask = 2 ^ c

\* what is remembered of a step: its kind, its operand, the blocks before it
StepHist(kind, dst, srcs) ==
    [hist EXCEPT !.ntok = @ + 1, !.inst = Inst(kind, dst, srcs, ""),
                 !.first = Len(instrs), !.pre = blocks]

InitStep == InitWith({"VERTEX"}, {FALSE})

StepCreate ==
    /\ pc = "instr"
    /\ hist.ntok < MaxSteps
    /\ Commit(instr_create(S, 2, "OPC_ADD_F"))
    /\ hist' = StepHist("create", NoDst, <<>>)
    /\ UNCHANGED <<pc, frame>>

StepClone ==
    /\ pc = "instr"
    /\ hist.ntok < MaxSteps
    /\ ctx.current_instr # NULL
    /\ Commit(instr_clone(S, ctx.current_instr))
    /\ hist' = StepHist("clone", NoDst, <<>>)
    /\ UNCHANGED <<pc, frame>>

\* add_dst_reg(ctx, ctx->current_instr, dst, chan)
StepDst ==
    /\ pc = "instr"
    /\ hist.ntok < MaxSteps
    /\ ctx.current_instr # NULL
    /\ \E dst \in StepDsts :
          /\ Commit(add_dst_reg(S, ctx.current_instr, dst,
                                MaskChan(dst.WriteMask)))
          /\ hist' = StepHist("dst", dst, <<>>)
    /\ UNCHANGED <<pc, frame>>

\* ssa_dst(ctx, instr, dst, chan), as vectorize() calls it, for the current
\* instruction or the one created before it
StepSsaDst ==
    /\ pc = "instr"
    /\ hist.ntok < MaxSteps
    /\ ctx.current_instr # NULL
    /\ \E dst \in StepDsts, back \in {0, 1} :
          /\ instrs[ctx.current_instr - back].category = 2
          /\ Commit(ssa_dst(S, ctx.current_instr - back, dst,
                            MaskChan(dst.WriteMask)))
          /\ hist' = StepHist("ssa_dst", dst, <<>>)
    /\ UNCHANGED <<pc, frame>>

\* add_src_reg(ctx, ctx->current_instr, src, src_swiz(src, 0))
StepSrc ==
    /\ pc = "instr"
    /\ hist.ntok < MaxSteps
    /\ ctx.current_instr # NULL
    /\ \E src \in StepSrcs :
          /\ Commit(add_src_reg(S, ctx.current_instr, src, src_swiz(src, 0)))
          /\ hist' = StepHist("src", NoDst, <<src>>)
    /\ UNCHANGED <<pc, frame>>

StepAtomicStart ==
    /\ pc = "instr"
    /\ hist.ntok < MaxSteps
    /\ ~ctx.atomic
    /\ Commit(instr_atomic_start(S))
    /\ hist' = StepHist("atomic_start", NoDst, <<>>)
    /\ UNCHANGED <<pc, frame>>

StepAtomicEnd ==
    /\ pc = "instr"
    /\ hist.ntok < MaxSteps
    /\ ctx.atomic
    /\ Commit(instr_atomic_end(S))
    /\ hist' = StepHist("atomic_end", NoDst, <<>>)
    /\ UNCHANGED <<pc, frame>>

NextStep ==
    \/ Start
    \/ DeclIn
    \/ DeclOut
    \/ DeclImm(PlainImms)
    \/ StepCreate
    \/ StepClone
    \/ StepDst
    \/ StepSsaDst
    \/ StepSrc
    \/ StepAtomicStart
    \/ StepAtomicEnd

SpecStep == InitStep /\ [][NextStep]_vars

(***************************************************************************)
(* Streams of the tokens whose routines ask for internal temporaries: ARL  *)
(* (get_internal_temp_hr), CMP and IF on constants (get_internal_temp and  *)
(* get_unconst), and a MOV that reads its own destination (get_dst).       *)
(***************************************************************************)
TempInsts ==
    {Inst("ARL", Dst("ADDRESS", 1), <<I0>>, "TGSI_SAT_NONE"),
     Inst("CMP", Dst("TEMPORARY", 1), <<K0, K0, K0>>, "TGSI_SAT_NONE"),
     Inst("MOV", Dst("TEMPORARY", 3), <<T0_YXWZ>>, "TGSI_SAT_NONE"),
     Inst("IF", NoDst, <<K0>>, "TGSI_SAT_NONE")}

Arl(insts, limit) ==
    \E inst \in insts :
        /\ Fxn(inst) = "trans_arl"
        /\ Token(inst, limit, trans_arl(S, translaters(inst.Opcode), inst))

InitTemps == InitWith({"VERTEX"}, {FALSE, TRUE})

NextTemps ==
    \/ Start
    \/ DeclIn
    \/ DeclOut
    \/ DeclImm(PlainImms)
    \/ Arl(TempInsts, MaxTempTokens)
    \/ Cmp(TempInsts, MaxTempTokens)
    \/ Cat1(TempInsts, MaxTempTokens)
    \/ If(TempInsts, MaxTempTokens)

SpecTemps == InitTemps /\ [][NextTemps]_vars

(***************************************************************************)
(* Streams of texture samples: TEX and TXP, on a 2D and on a 3D target,    *)
(* with coordinates from an input or a constant under several swizzles.    *)
(***************************************************************************)
SWZ_XYWW == <<0, 1, 3, 3>>
SWZ_YZWW == <<1, 2, 3, 3>>

SampSwizzles == {IDENTITY_SWIZZLE, SWZ_XYWW, SWZ_YZWW, SWZ_YXWZ, SWZ_XXXX}

\* TEX/TXP dst, coord, sampler, on the texture target tex
SampInst(opc, tex, coord) ==
    [Opcode |-> opc, Dst |-> Dst("TEMPORARY", TGSI_WRITEMASK_XYZW),
     Src |-> <<coord, Src("SAMPLER", IDENTITY_SWIZZLE, FALSE)>>,
     Saturate |-> "TGSI_SAT_NONE", Texture |-> tex]

SampInsts ==
    {SampInst(opc, tex, Src("INPUT", z, FALSE)) :
        opc \in {"TEX", "TXP"},
        tex \in {"TGSI_TEXTURE_2D", "TGSI_TEXTURE_3D"},
        z \in SampSwizzles}
    \cup {SampInst("TEX", "TGSI_TEXTURE_2D", K0)}

Samp(insts, limit) ==
    \E inst \in insts :
        /\ Fxn(inst) = "trans_samp"
        /\ Token(inst, limit, trans_samp(S, translaters(inst.Opcode), inst))

InitSamp == InitWith({"VERTEX", "FRAGMENT"}, {FALSE, TRUE})

NextSamp ==
    \/ Start
    \/ DeclIn
    \/ DeclOut
    \/ DeclImm(PlainImms)
    \/ Samp(SampInsts, MaxSampTokens)

SpecSamp == InitSamp /\ [][NextSamp]_vars

(***************************************************************************)
(* Streams with saturate modifiers: a MOV to an output or a temporary,     *)
(* under write-masks with and without X, clamped to 0..1 or -1..1, at top  *)
(* level and inside conditionals.                                          *)
(***************************************************************************)
\* write-masks .xy, .y (X excluded) and .xyzw
SatMasks == {TGSI_WRITEMASK_XY, 2, TGSI_WRITEMASK_XYZW}

SatInsts ==
    {Inst("MOV", Dst(f, m), <<I0>>, sat) :
        f \in {"OUTPUT", "TEMPORARY"},
        m \in SatMasks,
        sat \in {"TGSI_SAT_ZERO_ONE", "TGSI_SAT_MINUS_PLUS_ONE"}}
    \cup {Inst("ADD", Dst("TEMPORARY", TGSI_WRITEMASK_XY), <<T0_YXWZ, I0>>,
                "TGSI_SAT_ZERO_ONE"),
           Inst("RCP", Dst("TEMPORARY", TGSI_WRITEMASK_XY), <<I0>>,
                "TGSI_SAT_MINUS_PLUS_ONE")}
    \cup {Inst("IF", NoDst, <<I0>>, "TGSI_SAT_NONE")}

InitSat == InitWith({"VERTEX", "FRAGMENT"}, {FALSE})

NextSat ==
    \/ Start
    \/ DeclIn
    \/ DeclOut
    \/ DeclImm(ImmVectors)
    \/ Cat1(SatInsts, MaxSatTokens)
    \/ Cat2(SatInsts, MaxSatTokens)
    \/ Cat4(SatInsts, MaxSatTokens)
    \/ If(SatInsts, MaxSatTokens)
    \/ Else(MaxSatTokens)
    \/ Endif(MaxSatTokens)

SpecSat == InitSat /\ [][NextSat]_vars

(***************************************************************************)
(* Streams whose operands come from the constant and immediate files:     *)
(* two-operand ALU operations, comparisons, CLAMP and negated MOV, with    *)
(* every choice of file for the operands.                                  *)
(***************************************************************************)
M0 == Src("IMMEDIATE", IDENTITY_SWIZZLE, FALSE)

ConstFiles == {K0, M0, I0}

ConstInsts ==
    {Inst(op, Dst("TEMPORARY", TGSI_WRITEMASK_XY), <<a, b>>, "TGSI_SAT_NONE") :
        op \in {"ADD", "MUL", "SLT", "SEQ"}, a \in ConstFiles,
        b \in ConstFiles}
    \cup {Inst("CMP", Dst("TEMPORARY", TGSI_WRITEMASK_XY), <<a, I0, K0>>,
               "TGSI_SAT_NONE") : a \in ConstFiles}
    \cup {Inst("CLAMP", Dst("TEMPORARY", TGSI_WRITEMASK_XY), <<a, b, M0>>,
               "TGSI_SAT_NONE") : a \in ConstFiles, b \in {K0, I0}}
    \cup {Inst("MOV", Dst("TEMPORARY", TGSI_WRITEMASK_XY),
               <<[a EXCEPT !.Negate = TRUE]>>, "TGSI_SAT_NONE") :
               a \in ConstFiles}

InitConst == InitWith({"VERTEX"}, {FALSE, TRUE})

NextConst ==
    \/ Start
    \/ DeclIn
    \/ DeclOut
    \/ DeclImm(PlainImms)
    \/ Cat1(ConstInsts, MaxConstTokens)
    \/ Cat2(ConstInsts, MaxConstTokens)
    \/ Clamp(ConstInsts, MaxConstTokens)
    \/ Cmp(ConstInsts, MaxConstTokens)

SpecConst == InitConst /\ [][NextConst]_vars

(***************************************************************************)
(* Streams of comparisons: each of the seven opcodes of trans_cmp() with   *)
(* operands from the input, constant and temporary files, the destination  *)
(* among the operands or not, after a MOV that sets the temporary or not.  *)
(***************************************************************************)
CmpOps == {I0, K0, T0_YXWZ}

\* the operand pairs: two files, both constant, the destination among them
CmpPairs == {<<I0, K0>>, <<K0, K0>>, <<T0_YXWZ, I0>>}

CmpInsts ==
    {Inst(op, Dst("TEMPORARY", TGSI_WRITEMASK_XY), ab, "TGSI_SAT_NONE") :
        op \in {"SEQ", "SNE", "SGE", "SLE", "SGT", "SLT"}, ab \in CmpPairs}
    \cup {Inst("CMP", Dst("TEMPORARY", TGSI_WRITEMASK_XY),
               <<a, I0, T0_YXWZ>>, "TGSI_SAT_NONE") : a \in CmpOps}
    \cup {Inst("MOV", Dst("TEMPORARY", TGSI_WRITEMASK_XYZW), <<I0>>,
               "TGSI_SAT_NONE")}

InitCmp == InitWith({"VERTEX"}, {FALSE, TRUE})

NextCmp ==
    \/ Start
    \/ DeclIn
    \/ DeclOut
    \/ DeclImm(PlainImms)
    \/ Cat1(CmpInsts, MaxCmpTokens)
    \/ Cmp(CmpInsts, MaxCmpTokens)

SpecCmp == InitCmp /\ [][NextCmp]_vars

(***************************************************************************)
(* Towers of conditionals: IF tokens one inside the other, to any depth,   *)
(* then the ELSE and ENDIF tokens that close them, each conditional with   *)
(* an else-scope or without.                                               *)
(***************************************************************************)
\* an IF, as long as no conditional has been closed or given its else-scope
IfNest(limit) ==
    /\ hist.inst.Opcode \in {NoInst.Opcode, "IF"}
    /\ IfDeep(DeepInsts, limit)

InitNest == InitWith({"VERTEX"}, {FALSE})

NextNest ==
    \/ Start
    \/ DeclIn
    \/ DeclOut
    \/ DeclImm(PlainImms)
    \/ IfNest(MaxNestTokens)
    \/ Else(MaxNestTokens)
    \/ Endif(MaxNestTokens)

SpecNest == InitNest /\ [][NextNest]_vars

(***************************************************************************)
(* Operands gathered behind a fan-in node: an instruction is created and   *)
(* given source operands by add_src_reg_wrmask(), under every nonzero      *)
(* component mask, from the input, temporary and output files.             *)
(***************************************************************************)
FanSrcs ==
    {Src(f, IDENTITY_SWIZZLE, FALSE) : f \in {"INPUT", "TEMPORARY", "OUTPUT"}}

FanMasks == 1..TGSI_WRITEMASK_XYZW

FanCreate ==
    /\ pc = "instr"
    /\ hist.ntok < MaxFanSteps
    /\ Commit(instr_create(S, 5, "OPC_SAM"))
    /\ hist' = StepHist("create", NoDst, <<>>)
    /\ UNCHANGED <<pc, frame>>

\* add_src_reg_wrmask(ctx, ctx->current_instr, src, src->SwizzleX, wrmask)
FanSrc ==
    /\ pc = "instr"
    /\ hist.ntok < MaxFanSteps
    /\ ctx.current_instr # NULL
    /\ \E src \in FanSrcs, wrmask \in FanMasks :
          /\ Commit(add_src_reg_wrmask(S, ctx.current_instr, src,
                                       src_swiz(src, 0), wrmask))
          /\ hist' = StepHist("src_wrmask",
                              [NoDst EXCEPT !.WriteMask = wrmask], <<src>>)
    /\ UNCHANGED <<pc, frame>>

InitFan == InitWith({"VERTEX", "FRAGMENT"}, {FALSE})

NextFan ==
    \/ Start
    \/ DeclIn
    \/ DeclOut
    \/ DeclImm(PlainImms)
    \/ FanCreate
    \/ FanSrc

SpecFan == InitFan /\ [][NextFan]_vars

(***************************************************************************)
(* Observations on the graph.                                              *)
(***************************************************************************)
\* the instructions the handler of the last token emitted
TokenInstrs == (hist.first + 1)..hist.mid

\* a native instruction, not a meta node
IsNative(k) == instrs[k].category >= 0

\* the mov of the immediate 0.0 that create_immed(ctx, 0.0) makes
IsZeroImmed(k) ==
    /\ k \in 1..Len(instrs)
    /\ instrs[k].category = 1
    /\ instrs[k].opc = "OPC_0"
    /\ Len(instrs[k].regs) = 2
    /\ "IMMED" \in instrs[k].regs[2].flags
    /\ instrs[k].regs[2].fim_val = fui_0_0

\* the hardware register number of register index of file
RegNo(file, index) == base_reg(so, file) + index

\* the source registers of instruction k that read a component of the
\* general-purpose register regno through the graph
ReadsOf(k, regno) ==
    {r \in 2..Len(instrs[k].regs) :
        /\ "SSA" \in instrs[k].regs[r].flags
        /\ instrs[k].regs[r].flags \cap {"CONST", "IMMED"} = {}
        /\ instrs[k].regs[r].num \div 4 = regno}

\* the live-value slots of file in block b of the block heap blks
SlotsOf(blks, b, file) ==
    IF file = "TEMPORARY" THEN blks[b].temporaries ELSE blks[b].outputs

\* the value live for component c of the last token's destination register
\* before the token
PreLive(c) ==
    SlotsOf(hist.pre, hist.preblock, hist.inst.Dst.File)
        [regid(hist.inst.Dst.Index, c)]

\* ... and now
NowLive(c) ==
    SlotsOf(blocks, ctx.block, hist.inst.Dst.File)
        [regid(hist.inst.Dst.Index, c)]

\* the enabled components of a write-mask, in increasing order
RECURSIVE CompsFrom(_, _)
CompsFrom(m, i) ==
    IF i > 3 THEN <<>>
    ELSE (IF Bit(m, i) THEN <<i>> ELSE <<>>) \o CompsFrom(m, i + 1)

Comps(m) == CompsFrom(m, 0)

\* the last token had a destination register
HasDst == hist.ntok > 0 /\ hist.inst.Dst.File \in {"TEMPORARY", "OUTPUT"}

\* the destination register of the last token
DstRegNo == RegNo(hist.inst.Dst.File, hist.inst.Dst.Index)

\* the internal temporary that get_dst() takes: the first of the token
TmpRegNo == RegNo("TEMPORARY", file_max.TEMPORARY + 1)

\* the last token's destination is among its sources, non-trivially
HazardToken ==
    HasDst /\ \E i \in 1..Len(hist.inst.Src) : Hazard(hist.inst, i)

(***************************************************************************)
(* Properties.                                                             *)
(***************************************************************************)
\* C1: every read, by an instruction that the handler of a token emitted,
\* of the register that the token writes resolves to a value that was live
\* for that register before the token (or to a mov of 0.0 where a component
\* had none), never to an instruction emitted for the token itself; the
\* exempted case, destination = source with mask XYZW and identity swizzle,
\* included.
C1_ReadsSeePreValue ==
    HasDst =>
        \A k \in TokenInstrs :
            IsNative(k) =>
                \A r \in ReadsOf(k, DstRegNo) :
                    \/ \E c \in 0..3 : /\ PreLive(c) # NULL
                                       /\ instrs[k].regs[r].instr = PreLive(c)
                    \/ /\ \E c \in 0..3 : PreLive(c) = NULL
                       /\ IsZeroImmed(instrs[k].regs[r].instr)

\* the instructions of the last token that write its true destination
DstWriters ==
    {k \in TokenInstrs :
        /\ IsNative(k)
        /\ Len(instrs[k].regs) >= 1
        /\ instrs[k].regs[1].num \div 4 = DstRegNo}

\* instruction k is the move of component c of the internal temporary, as
\* the token's main operations left it, into the true destination
IsMoveBack(k, c) ==
    /\ instrs[k].category = 1
    /\ instrs[k].opc = "OPC_0"
    /\ instrs[k].regs[1].num = regid(DstRegNo, c)
    /\ Len(instrs[k].regs) = 2
    /\ "SSA" \in instrs[k].regs[2].flags
    /\ instrs[k].regs[2].num = regid(TmpRegNo, c)
    /\ instrs[k].regs[2].instr \in TokenInstrs
    /\ instrs[k].regs[2].instr < k
    /\ IsNative(instrs[k].regs[2].instr)
    /\ instrs[instrs[k].regs[2].instr].regs[1].num = regid(TmpRegNo, c)

\* the main operations of a token with the hazard write the internal
\* temporary, and the true destination is written by the instructions
\* after them only, each a move back
Redirected(nmoves) ==
    /\ DstWriters = (hist.mid - nmoves + 1)..hist.mid
    /\ \A k \in DstWriters : \E c \in 0..3 : IsMoveBack(k, c)
    /\ \E k \in TokenInstrs : /\ k <= hist.mid - nmoves
                              /\ IsNative(k)
                              /\ instrs[k].regs[1].num \div 4 = TmpRegNo

C10_ClampXY ==
    (hist.ntok > 0 /\ hist.inst.Opcode = "CLAMP"
        /\ hist.inst.Dst.WriteMask = TGSI_WRITEMASK_XY) =>
        LET maxs == {k \in TokenInstrs : instrs[k].category = 2
                                         /\ instrs[k].opc = "OPC_MAX_F"}
            mins == {k \in TokenInstrs : instrs[k].category = 2
                                         /\ instrs[k].opc = "OPC_MIN_F"}
        IN  /\ Cardinality(maxs) = 2
            /\ Cardinality(mins) = 2
            /\ {instrs[k].regs[1].num % 4 : k \in maxs} = {0, 1}
            /\ {instrs[k].regs[1].num % 4 : k \in mins} = {0, 1}
            /\ \A c \in {2, 3} : NowLive(c) = PreLive(c)

\* C10 witness: a CLAMP with write-mask XY is lowered, onto a register whose
\* Z and W had values
C10_Witness ==
    /\ hist.ntok > 0
    /\ hist.inst.Opcode = "CLAMP"
    /\ hist.inst.Dst.WriteMask = TGSI_WRITEMASK_XY
    /\ PreLive(2) # NULL
    /\ PreLive(3) # NULL

\* the value live, when vectorize() was called, for component c of the
\* register that operand src names (the call is made in the top-level scope)
StartLive(src, c) ==
    CASE src.File = "TEMPORARY" ->
           frame.start[ctx.block].temporaries[regid(src.Index, c)]
      [] src.File = "OUTPUT" ->
           frame.start[ctx.block].outputs[regid(src.Index, c)]
      [] src.File = "INPUT" ->
           frame.start[ctx.block].inputs[regid(src.Index, c)]
      [] OTHER -> NULL

\* register reg is operand a resolved for destination component i
OperandFor(reg, a, i) ==
    IF is_const(a.src)
    THEN /\ "CONST" \in reg.flags
         /\ reg.num = regid(RegNo(a.src.File, a.src.Index),
                            src_swiz(a.src, i))
    ELSE /\ "SSA" \in reg.flags
         /\ IF StartLive(a.src, src_swiz(a.src, i)) # NULL
            THEN reg.instr = StartLive(a.src, src_swiz(a.src, i))
            ELSE IsZeroImmed(reg.instr)

\* the elements of a sequence
Range(q) == {q[k] : k \in 1..Len(q)}

\* C5: vectorize() of a template under write-mask W leaves exactly |W|
\* destination-writing instructions, the template first and then its
\* clones, in increasing component order; their destination components are
\* the components of W; and operand j of the instruction for component i is
\* the value live, before the call, for component swizzle_j(i) of operand
\* j's register (the constant of that component, for a constant operand).
C5_Vectorize ==
    pc = "vectorized" =>
        LET w == Comps(frame.d.dst.WriteMask)
        IN  /\ Len(frame.group) = Len(w)
            /\ frame.group[1] = frame.instr
            /\ \A k \in 2..Len(w) : frame.group[k] > frame.group[k - 1]
            /\ {k \in frame.instr..Len(instrs) :
                    IsNative(k) /\ ~IsZeroImmed(k)} = Range(frame.group)
            /\ \A k \in 1..Len(w) :
                  /\ instrs[frame.group[k]].regs[1].num =
                        regid(RegNo(frame.d.dst.File, frame.d.dst.Index),
                              w[k])
                  /\ Len(instrs[frame.group[k]].regs) = Len(frame.args) + 1
                  /\ \A j \in 1..Len(frame.args) :
                        OperandFor(instrs[frame.group[k]].regs[j + 1],
                                   frame.args[j], w[k])

\* C5 witness: a two-operand template was expanded under XYZW into four
\* instructions, its first operand swizzled
C5_Witness ==
    /\ pc = "vectorized"
    /\ frame.d.dst.WriteMask = TGSI_WRITEMASK_XYZW
    /\ Len(frame.args) = 2
    /\ Len(frame.group) = 4
    /\ frame.args[1].src.Swizzle # IDENTITY_SWIZZLE

\* slot n of file is a component that the vectorize() call in progress
\* writes
IsGroupDst(file, n) ==
    /\ file = frame.d.dst.File
    /\ \E c \in 0..3 : /\ Bit(frame.d.dst.WriteMask, c)
                       /\ n = regid(frame.d.dst.Index, c)

\* C6: while vectorize() runs, atomic mode is on and no live-value slot of
\* the current scope changes; when it has returned, atomic mode is off, the
\* queue of deferred writes is empty, every destination component of the
\* write-mask has the instruction emitted for it as live value, every other
\* slot is as it was, and what the group read of the register it writes
\* are the values from before the group.
C6_Transactional ==
    /\ pc = "vectorize" =>
          /\ ctx.atomic
          /\ blocks[ctx.block].temporaries =
                frame.start[ctx.block].temporaries
          /\ blocks[ctx.block].outputs = frame.start[ctx.block].outputs
    /\ pc = "vectorized" =>
          /\ ~ctx.atomic
          /\ ctx.output_updates = <<>>
          /\ \A k \in 1..Len(frame.group) :
                SlotsOf(blocks, ctx.block, frame.d.dst.File)
                    [regid(frame.d.dst.Index,
                           Comps(frame.d.dst.WriteMask)[k])]
                = frame.group[k]
          /\ \A file \in {"TEMPORARY", "OUTPUT"} :
                \A n \in DOMAIN SlotsOf(blocks, ctx.block, file) :
                    ~IsGroupDst(file, n) =>
                        SlotsOf(blocks, ctx.block, file)[n] =
                            SlotsOf(frame.start, ctx.block, file)[n]
          /\ \A k \in Range(frame.group) :
                \A r \in ReadsOf(k, RegNo(frame.d.dst.File,
                                          frame.d.dst.Index)) :
                    \/ instrs[k].regs[r].instr \in
                          {SlotsOf(frame.start, ctx.block, frame.d.dst.File)
                              [regid(frame.d.dst.Index, c)] : c \in 0..3}
                    \/ IsZeroImmed(instrs[k].regs[r].instr)

\* C6 witness: a group that writes all four components of the register it
\* reads has returned
C6_Witness ==
    /\ pc = "vectorized"
    /\ ~frame.d.tmp
    /\ frame.inst.Src[1].File = frame.inst.Dst.File
    /\ frame.inst.Src[1].Index = frame.inst.Dst.Index
    /\ Len(frame.group) = 4
    /\ \E c \in 0..3 :
          frame.start[ctx.block].temporaries[regid(frame.inst.Dst.Index, c)]
              # NULL

\* the last token closed a conditional
Closed == hist.ntok > 0 /\ hist.closed # <<>>

\* the scope marker of the conditional that the last token closed, and its
\* two scopes (ElseBlock is NULL when it had no else-scope)
Flow == hist.closed[1].flow

IfBlock == instrs[Flow].if_block

ElseBlock == instrs[Flow].else_block

\* the slots of the registers that the shader declares
DeclaredSlots(file) == 0..(SCALAR_REGS(file) - 1)

\* the value of slot n of file at the end of the scope b that the last
\* token closed
FinalValue(b, file, n) == SlotsOf(hist.pre, b, file)[n]

\* the value live for slot n of file in the nearest enclosing scope
\* immediately before the token that opened the conditional
EnclosingBefore(file, n) ==
    find_slot([blocks |-> hist.closed[1].before.blocks],
              hist.closed[1].before.block, file, n)

\* instruction k is a phi node that the last token made
IsNewPhi(k) ==
    /\ k \in TokenInstrs
    /\ instrs[k].category = -1
    /\ instrs[k].opc = "META_PHI"
    /\ Len(instrs[k].regs) = 4
    /\ instrs[k].regs[2].instr = Flow

\* operand k of a phi leads to the value v: it is v, or the output node of
\* a scope whose source is v
LeadsTo(k, v) ==
    \/ k = v
    \/ /\ k \in 1..Len(instrs)
       /\ instrs[k].category = -1
       /\ instrs[k].opc = "META_OUTPUT"
       /\ Len(instrs[k].regs) = 2
       /\ instrs[k].regs[2].instr = v

\* slot n of file was written in the then-scope and not on the else side
ThenOnly(file, n) ==
    /\ FinalValue(IfBlock, file, n) # NULL
    /\ ElseBlock # NULL => FinalValue(ElseBlock, file, n) = NULL

\* C2: when ENDIF closes a conditional, every slot of a declared temporary
\* or output that the then-scope wrote and the else side did not (no
\* else-scope, or one that did not write it) has in the merge scope a new
\* phi as live value, whose then-side operand leads to the then-scope's
\* final value and whose else-side operand leads to the value live in the
\* nearest enclosing scope immediately before the IF, or is a mov of 0.0 if
\* there was none.
C2_ThenOnlyPhi ==
    Closed =>
        \A file \in {"TEMPORARY", "OUTPUT"} :
            \A n \in DeclaredSlots(file) :
                ThenOnly(file, n) =>
                    /\ IsNewPhi(SlotsOf(blocks, ctx.block, file)[n])
                    /\ LeadsTo(instrs[SlotsOf(blocks, ctx.block, file)[n]]
                                   .regs[3].instr,
                               FinalValue(IfBlock, file, n))
                    /\ IF EnclosingBefore(file, n) # NULL
                       THEN LeadsTo(
                               instrs[SlotsOf(blocks, ctx.block, file)[n]]
                                   .regs[4].instr,
                               EnclosingBefore(file, n))
                       ELSE IsZeroImmed(
                               instrs[SlotsOf(blocks, ctx.block, file)[n]]
                                   .regs[4].instr)

\* slot n of file was written in both scopes of the conditional
BothWrote(file, n) ==
    /\ ElseBlock # NULL
    /\ FinalValue(IfBlock, file, n) # NULL
    /\ FinalValue(ElseBlock, file, n) # NULL

\* slot n of file was written in neither scope of the conditional
NeitherWrote(file, n) ==
    /\ ElseBlock # NULL
    /\ FinalValue(IfBlock, file, n) = NULL
    /\ FinalValue(ElseBlock, file, n) = NULL

\* C3: when ENDIF closes a conditional with a then-scope and an else-scope,
\* every temporary or output slot written in both has in the merge scope a
\* new phi as live value, with three operands: the scope marker, the
\* output node of the then-scope whose source is the last value the
\* then-scope wrote, and the output node of the else-scope whose source is
\* the last value the else-scope wrote; a slot written in neither keeps its
\* live value in the merge scope, and no phi is made for it.
C3_BothWrittenPhi ==
    (Closed /\ ElseBlock # NULL) =>
        \A file \in {"TEMPORARY", "OUTPUT"} :
            \A n \in DOMAIN SlotsOf(blocks, ctx.block, file) :
                /\ BothWrote(file, n) =>
                      /\ IsNewPhi(SlotsOf(blocks, ctx.block, file)[n])
                      /\ instrs[SlotsOf(blocks, ctx.block, file)[n]]
                             .regs[3].instr
                         # FinalValue(IfBlock, file, n)
                      /\ LeadsTo(instrs[SlotsOf(blocks, ctx.block, file)[n]]
                                     .regs[3].instr,
                                 FinalValue(IfBlock, file, n))
                      /\ instrs[SlotsOf(blocks, ctx.block, file)[n]]
                             .regs[4].instr
                         # FinalValue(ElseBlock, file, n)
                      /\ LeadsTo(instrs[SlotsOf(blocks, ctx.block, file)[n]]
                                     .regs[4].instr,
                                 FinalValue(ElseBlock, file, n))
                /\ NeitherWrote(file, n) =>
                      /\ SlotsOf(blocks, ctx.block, file)[n] =
                            SlotsOf(hist.pre, ctx.block, file)[n]
                      /\ SlotsOf(blocks, ctx.block, file)[n] \notin TokenInstrs

\* C3 witness: an ENDIF has closed a conditional whose two scopes both
\* wrote a slot, and that left alone another slot that had a live value
C3_Witness ==
    /\ Closed
    /\ ElseBlock # NULL
    /\ \E n \in DeclaredSlots("TEMPORARY") : BothWrote("TEMPORARY", n)
    /\ \E n \in DOMAIN blocks[ctx.block].temporaries :
          /\ NeitherWrote("TEMPORARY", n)
          /\ blocks[ctx.block].temporaries[n] # NULL

\* the value that a read of slot n of the temporaries finds, before the
\* last token, in the scope of the token or the nearest enclosing one
FoundBefore(n) ==
    find_temporary([blocks |-> hist.pre], hist.preblock, n)

\* the last token read TEMP[0].x, a component without live value in the
\* scope of the token
ReadsUnwritten ==
    /\ hist.ntok > 0
    /\ hist.inst.Opcode = "MOV"
    /\ hist.inst.Src[1] = T0_XXXX
    /\ hist.pre[hist.preblock].temporaries[0] = NULL

\* C8: in any scope, a read of a temporary component that was never
\* written in the scope or in a scope enclosing it resolves to a mov of the
\* immediate 0.0.
C8_UnwrittenReadsZero ==
    (ReadsUnwritten /\ FoundBefore(0) = NULL) =>
        \A k \in TokenInstrs :
            IsNative(k) =>
                \A r \in ReadsOf(k, RegNo("TEMPORARY", 0)) :
                    IsZeroImmed(instrs[k].regs[r].instr)

\* C9: in a nested scope that has not written TEMP[0].x, the two reads of
\* it that one token makes resolve to one and the same node, a block-input
\* node of the scope, which is what the scope's input slot holds.
C9_SameBoundaryNode ==
    (ReadsUnwritten /\ blocks[ctx.block].parent # NULL) =>
        \A k1, k2 \in TokenInstrs :
            (IsNative(k1) /\ IsNative(k2)) =>
                \A r1 \in ReadsOf(k1, RegNo("TEMPORARY", 0)) :
                    \A r2 \in ReadsOf(k2, RegNo("TEMPORARY", 0)) :
                        /\ instrs[k1].regs[r1].instr =
                              instrs[k2].regs[r2].instr
                        /\ instrs[instrs[k1].regs[r1].instr].opc =
                              "META_INPUT"
                        /\ blocks[ctx.block].inputs[0] =
                              instrs[k1].regs[r1].instr

\* C7: for two consecutive requests of the immediate pool, of v and then
\* of the float negation of v, the pool grows by one slot at most over the
\* two, the second request is given the slot and component of the first
\* with the negate flag set, and the first has the negate flag clear.
C7_NegatedReuse ==
    \A k \in 1..(Len(hist.req) - 1) :
        hist.req[k + 1].val = FNeg(hist.req[k].val) =>
            /\ hist.req[k + 1].after <= hist.req[k].before + 1
            /\ hist.req[k + 1].reg.Index = hist.req[k].reg.Index
            /\ hist.req[k + 1].reg.Swizzle = hist.req[k].reg.Swizzle
            /\ hist.req[k + 1].reg.Negate
            /\ ~hist.req[k].reg.Negate

\* the registers base..base+max of file, once the bases are set
RegRange(file) ==
    ctx.base_reg[file]..(ctx.base_reg[file] + ctx.info_file_max[file])

\* the number of registers reserved before the inputs
ReservedPrefix ==
    IF so.type = "FRAGMENT" /\ ~so.half_precision THEN 1 ELSE 0

C12_BranchBounded == Len(ctx.branch) <= BranchSize

\* the token stream of the call is one that initialization rejects
BadTokens ==
    \/ frame.tokens.indirect_files \cap FM # {}
    \/ ~frame.tokens.parse_ok

\* C13: if the scan reports indirect addressing on the temporary, input,
\* output, immediate or constant file, or the token stream does not parse,
\* initialization returns an error and the call goes to its exit with a
\* failure result, no block created and no declaration, immediate or
\* instruction lowered.
C13_InitFailure ==
    (BadTokens /\ pc \notin {"call", "compile_init"}) =>
        /\ frame.init # "TGSI_PARSE_OK"
        /\ pc \in {"out", "returned"}
        /\ frame.ret # 0
        /\ blocks = <<>>
        /\ instrs = <<>>
        /\ so.immediates_count = 0
        /\ hist.ntok = 0

\* C13 witness: a call on a stream with indirect addressing of temporaries
\* has returned
C13_Witness ==
    /\ pc = "returned"
    /\ frame.tokens.indirect_files = {"TEMPORARY"}
    /\ frame.tokens.parse_ok
    /\ frame.ret = -1

\* C14: when the call returns a nonzero result, the shader object holds no
\* instruction graph (it was destroyed and the reference cleared); when it
\* returns zero, the shader object holds the graph that the call created.
C14_GraphOnReturn ==
    pc = "returned" =>
        /\ frame.ret # 0 => (so.ir = NULL /\ instrs = <<>> /\ blocks = <<>>)
        /\ frame.ret = 0 => (so.ir # NULL /\ blocks # <<>>)

\* C14 witness: a call has returned a failure that came after the lowering
C14_Witness ==
    /\ pc = "returned"
    /\ frame.ret # 0
    /\ frame.init = "TGSI_PARSE_OK"
    /\ hist.ntok > 0

\* C15: if the stream holds an instruction whose opcode has no lowering
\* routine, or an operand of an unsupported register file, the call ends
\* with a failure result and no graph attached to the shader object.
C15_ErrorFails ==
    (pc = "returned" /\ ctx.err) => (frame.ret # 0 /\ so.ir = NULL)

\* the positions in the queue q of the writes to slot n of a file of block b
Pending(q, b, file, n) ==
    {i \in 1..Len(q) : q[i].block = b /\ q[i].file = file /\ q[i].n = n}

\* slot n of a file of block b
SlotOf(blks, b, file, n) ==
    IF file = "OUTPUT" THEN blks[b].outputs[n] ELSE blks[b].temporaries[n]

\* what slot n holds once the queue q is applied in order
Flushed(blks, q, b, file, n) ==
    IF Pending(q, b, file, n) = {} THEN SlotOf(blks, b, file, n)
    ELSE q[CHOOSE i \in Pending(q, b, file, n) :
               \A j \in Pending(q, b, file, n) : j <= i].instr

\* a step has created or cloned an instruction outside atomic mode
CreatedStep ==
    /\ pc = "instr" /\ pc' = "instr"
    /\ hist'.ntok = hist.ntok + 1
    /\ hist'.inst.Opcode \in {"create", "clone"}
    /\ ~ctx.atomic

\* a step has resolved an operand read of a temporary or an output
ResolvedStep ==
    /\ pc = "instr" /\ pc' = "instr"
    /\ hist'.ntok = hist.ntok + 1
    /\ hist'.inst.Opcode = "src"

\* the slot an operand names
SrcSlot(src) == regid(src.Index, src_swiz(src, 0))

\* C16: outside atomic mode, creating or cloning an instruction applies
\* every pending deferred write to its slot, the last write to a slot
\* winning, empties the queue, and then creates the instruction and makes it
\* current; an operand read resolves to what the slot held before the
\* pending writes (zero when it held nothing), so a write recorded for an
\* instruction is seen by no read made before the next creation and by the
\* reads made after it.
C16_FlushThenCreate ==
    [][/\ CreatedStep =>
            /\ \A b \in 1..Len(blocks) :
                  /\ \A n \in 0..(blocks[b].ntemporaries - 1) :
                        blocks'[b].temporaries[n] =
                            Flushed(blocks, ctx.output_updates, b,
                                    "TEMPORARY", n)
                  /\ \A n \in 0..(blocks[b].noutputs - 1) :
                        blocks'[b].outputs[n] =
                            Flushed(blocks, ctx.output_updates, b,
                                    "OUTPUT", n)
            /\ ctx'.output_updates = <<>>
            /\ Len(instrs') = Len(instrs) + 1
            /\ ctx'.current_instr = Len(instrs')
       /\ ResolvedStep =>
            /\ ctx'.output_updates = ctx.output_updates
            /\ blocks' = blocks
            /\ LET src == hist'.inst.Src[1]
                   old == SlotOf(blocks, ctx.block, src.File, SrcSlot(src))
                   r   == instrs'[ctx.current_instr].regs[
                              Len(instrs'[ctx.current_instr].regs)]
               IN  IF old # NULL THEN r.instr = old
                   ELSE /\ r.instr = Len(instrs')
                        /\ Len(instrs') = Len(instrs) + 1
                        /\ instrs'[r.instr].category = 1
                        /\ instrs'[r.instr].regs[2].fim_val = fui_0_0]_vars

\* C16 witness: outside atomic mode a creation has applied a pending write,
\* and the slot now holds an instruction older than the current one
C16_Witness ==
    /\ pc = "instr"
    /\ hist.inst.Opcode \in {"create", "clone"}
    /\ ~ctx.atomic
    /\ hist.pre # blocks
    /\ ctx.output_updates = <<>>
    /\ \E n \in 0..(blocks[ctx.block].ntemporaries - 1) :
          /\ blocks[ctx.block].temporaries[n] # NULL
          /\ blocks[ctx.block].temporaries[n] < ctx.current_instr

\* the last token reads shader input 0 and no other register
ReadsInputOnly ==
    /\ hist.ntok > 0
    /\ hist.inst.Src # <<>>
    /\ \A i \in 1..Len(hist.inst.Src) : hist.inst.Src[i].File = "INPUT"

\* the number of scopes that enclose block b of the block heap blks
RECURSIVE Depth(_, _)
Depth(blks, b) ==
    IF blks[b].parent = NULL THEN 0 ELSE 1 + Depth(blks, blks[b].parent)

\* the outermost scope around block b
RECURSIVE Outermost(_, _)
Outermost(blks, b) ==
    IF blks[b].parent = NULL THEN b ELSE Outermost(blks, blks[b].parent)

\* C17: a read of shader input n made in a scope nested at any depth
\* resolves to the instruction in input slot n of the outermost scope, the
\* one a read at top level gets, and makes no boundary node and changes no
\* scope's input slots.
C17_InputFromTop ==
    ReadsInputOnly =>
        /\ \A k \in TokenInstrs :
              /\ instrs[k].opc # "META_INPUT"
              /\ IsNative(k) =>
                    \A r \in ReadsOf(k, RegNo("INPUT", 0)) :
                        /\ instrs[k].regs[r].instr # NULL
                        /\ instrs[k].regs[r].instr =
                              hist.pre[Outermost(hist.pre, hist.preblock)]
                                  .inputs[instrs[k].regs[r].num % 4]
        /\ \A b \in 1..Len(hist.pre) : blocks[b].inputs = hist.pre[b].inputs

\* C17 witness: a token two scopes deep has read shader input 0
C17_Witness ==
    /\ ReadsInputOnly
    /\ Depth(hist.pre, hist.preblock) = 2
    /\ Outermost(hist.pre, hist.preblock) = 1
    /\ \E k \in TokenInstrs :
          /\ IsNative(k)
          /\ ReadsOf(k, RegNo("INPUT", 0)) # {}

\* C18: the counter of internal temporaries is 0 when the lowering of every
\* instruction token starts, whatever tokens came before; the k-th internal
\* temporary that the lowering of a token requested has register index
\* max_temporary + k; and no token's lowering requested more internal
\* temporaries than the pool holds.
C18_InternalTemps ==
    pc = "instr" =>
        /\ ctx.num_internal_temps = 0
        /\ hist.ntemps <= InternalTempsSize
        /\ \A k \in 1..hist.ntemps :
              ctx.internal_temps[k].Index = file_max.TEMPORARY + k

\* the instruction that computes the value live for component c of the
\* last token's destination: the source of the move back when get_dst()
\* redirected the token to an internal temporary
Computed(c) ==
    IF /\ NowLive(c) \in TokenInstrs
       /\ instrs[NowLive(c)].category = 1
       /\ Len(instrs[NowLive(c)].regs) = 2
       /\ "SSA" \in instrs[NowLive(c)].regs[2].flags
    THEN instrs[NowLive(c)].regs[2].instr
    ELSE NowLive(c)

\* C19: after CLAMP dst, x, lo, hi, whatever the destination register and
\* the write-mask, the value of each enabled component c of dst is a min
\* against hi whose first operand is the max that the token emitted for
\* component c, so the value is min(max(x, lo), hi).
C19_ClampMinOfMax ==
    (hist.ntok > 0 /\ hist.inst.Opcode = "CLAMP") =>
        \A c \in 0..3 :
            Bit(hist.inst.Dst.WriteMask, c) =>
                /\ Computed(c) \in TokenInstrs
                /\ instrs[Computed(c)].opc = "OPC_MIN_F"
                /\ instrs[Computed(c)].regs[2].instr \in TokenInstrs
                /\ instrs[instrs[Computed(c)].regs[2].instr].opc = "OPC_MAX_F"
                /\ instrs[instrs[Computed(c)].regs[2].instr].regs[1].num % 4
                      = c

\* C20: when ENDIF closes a conditional, whatever slots its then-scope and
\* its else-scope wrote, the number of merged slots recorded into each
\* scope's new output list is at most the number of entries allocated for
\* the list, which is the number of slots that scope itself had written.
C20_OutputListsFit ==
    Closed =>
        /\ blocks[IfBlock].noutputs <=
              CountWritten([blocks |-> hist.pre], IfBlock, IfBlock)
        /\ ElseBlock # NULL =>
              blocks[ElseBlock].noutputs <=
                  CountWritten([blocks |-> hist.pre], ElseBlock, IfBlock)

\* the last token is a texture sample
SampToken == hist.ntok > 0 /\ hist.inst.Opcode \in {"TEX", "TXP"}

\* the sample instruction that the last token emitted
SampOf == CHOOSE k \in TokenInstrs : instrs[k].category = 5

\* the fan-in node behind the sample's coordinate operand
SampFanIn == instrs[SampOf].regs[2].instr

\* instruction k is one of the last token's shuffle movs
IsShuffle(k) ==
    /\ k \in TokenInstrs
    /\ instrs[k].category = 1
    /\ instrs[k].opc = "OPC_0"
    /\ instrs[k].regs[1].num \div 4 = TmpRegNo

\* the component of the token's coordinate register that position j of the
\* sample's coordinate operand carries: the one the shuffle mov read, or the
\* input slot that the operand resolves to
SampComp(j) ==
    LET v == instrs[SampFanIn].regs[j + 2].instr
    IN  IF IsShuffle(v) THEN instrs[v].regs[2].num % 4
        ELSE IF \E n \in 0..3 : blocks[1].inputs[n] = v
             THEN CHOOSE n \in 0..3 : blocks[1].inputs[n] = v
             ELSE -1

\* C21: for TEX and TXP on any target and with any coordinate swizzle,
\* whether shuffle movs are emitted or not, position j of the sample's
\* coordinate operand carries component swizzle(order[j]) of the coordinate
\* register, order being 0,1 for 2D TEX, 0,1,2 for other TEX, 0,1,3 for 2D
\* TXP and 0,1,2,3 for other TXP.
C21_SampCoords ==
    SampToken =>
        /\ \E k \in TokenInstrs : instrs[k].category = 5
        /\ instrs[SampFanIn].opc = "META_FI"
        /\ \A j \in 0..(samp_count(samp_order(translaters(hist.inst.Opcode),
                                              hist.inst.Texture)) - 1) :
              SampComp(j) =
                  src_swiz(hist.inst.Src[1],
                           samp_order(translaters(hist.inst.Opcode),
                                      hist.inst.Texture)[j + 1])

\* the last token carried a saturate modifier
SatToken ==
    /\ hist.ntok > 0
    /\ hist.inst.Saturate \in {"TGSI_SAT_ZERO_ONE", "TGSI_SAT_MINUS_PLUS_ONE"}

\* C22: lowering a saturate modifier on an instruction that writes an output
\* register, in any scope and under any write-mask, trips no assertion:
\* every read of the output register made by the clamp instructions
\* resolves to an instruction that the scope already had for that slot,
\* never to a substitute made for a slot without one.
C22_SaturateResolves ==
    (SatToken /\ hist.inst.Dst.File = "OUTPUT") =>
        /\ ~ctx.err
        /\ \A k \in TokenInstrs :
              IsNative(k) =>
                  \A r \in ReadsOf(k, RegNo("OUTPUT", hist.inst.Dst.Index)) :
                      /\ instrs[k].regs[r].instr # NULL
                      /\ ~IsZeroImmed(instrs[k].regs[r].instr)

\* the instructions that lowering the saturate modifier added
ClampInstrs == (hist.mid + 1)..Len(instrs)

\* the value that the main lowering of the last token left live for
\* component c of its destination
MainLive(c) ==
    SlotsOf(hist.midblocks, hist.preblock, hist.inst.Dst.File)
        [regid(hist.inst.Dst.Index, c)]

\* the float that a register reading the immediate pool denotes: the pool
\* slot it names, with the sign bit flipped when it carries the negate flag
Denoted(reg) ==
    LET slot == reg.num - 4 * base_reg(so, "IMMEDIATE")
        val  == IF slot \in DOMAIN so.immediates THEN so.immediates[slot]
                ELSE fui_0_0
    IN  IF "NEGATE" \in reg.flags THEN FNeg(val) ELSE val

\* the lower bound of the last token's saturate modifier
SatLow ==
    IF hist.inst.Saturate = "TGSI_SAT_ZERO_ONE" THEN fui_0_0 ELSE fui_m1_0

\* k is a two-source category-2 opc against the pool value bound, made by
\* the saturate lowering
IsBoundOp(k, opc, bound) ==
    /\ k \in ClampInstrs
    /\ instrs[k].category = 2
    /\ instrs[k].opc = opc
    /\ Len(instrs[k].regs) = 3
    /\ "CONST" \in instrs[k].regs[3].flags
    /\ Denoted(instrs[k].regs[3]) = bound

\* the shape of the clamp, whatever bounds its instructions are against
C24_Shape ==
    (SatToken /\ HasDst) =>
        /\ \A c \in 0..3 :
              IF Bit(hist.inst.Dst.WriteMask, c)
              THEN /\ NowLive(c) \in ClampInstrs
                   /\ instrs[NowLive(c)].opc = "OPC_MIN_F"
                   /\ instrs[NowLive(c)].regs[2].instr \in ClampInstrs
                   /\ instrs[instrs[NowLive(c)].regs[2].instr].opc
                         = "OPC_MAX_F"
                   /\ instrs[instrs[NowLive(c)].regs[2].instr].regs[2].instr
                         = MainLive(c)
                   /\ MainLive(c) \in TokenInstrs
              ELSE NowLive(c) = MainLive(c)
        /\ \A k \in ClampInstrs : \A j \in TokenInstrs : j < k

\* C24: after a token with a saturate modifier and write-mask W, the value
\* of each component c of W is a min against 1.0 whose first operand is a
\* max against the lower bound (0.0 or -1.0) whose first operand is the
\* value that the main lowering produced for c; the clamp instructions
\* follow those of the main lowering and the components outside W keep the
\* value of the main lowering.
C24_SaturateClamps ==
    (SatToken /\ HasDst) =>
        /\ C24_Shape
        /\ \A c \in 0..3 :
              Bit(hist.inst.Dst.WriteMask, c) =>
                  /\ IsBoundOp(NowLive(c), "OPC_MIN_F", fui_1_0)
                  /\ IsBoundOp(instrs[NowLive(c)].regs[2].instr,
                               "OPC_MAX_F", SatLow)

\* instruction k is a category-2 instruction with two source operands,
\* both of them reading the constant register file
BothConst(k) ==
    /\ instrs[k].category = 2
    /\ Len(instrs[k].regs) = 3
    /\ "CONST" \in instrs[k].regs[2].flags
    /\ "CONST" \in instrs[k].regs[3].flags

\* C23: no category-2 instruction with two source operands has both of
\* them in the constant or immediate file, whatever the token lowered
\* (two-operand ALU operation, comparison, CLAMP, negated MOV) and
\* whatever the files of its operands.
C23_NoConstPair ==
    \A k \in 1..Len(instrs) : ~BothConst(k)

(***************************************************************************)
(* What the instructions of a comparison compute.  A value is a float      *)
(* <<"f", n>> or an unsigned integer <<"u", n>>; an instruction applied to *)
(* a value of the wrong kind gives the undefined value.                    *)
(***************************************************************************)
CmpVals == {-1, 0, 1}

Undef == <<"x", 0>>

\* the float whose bits are w, for the words that the streams use
FloatOf(w) ==
    CASE w = fui_0_0 -> <<"f", 0>>
      [] w = fui_1_0 -> <<"f", 1>>
      [] w = fui_m1_0 -> <<"f", -1>>
      [] w = fui_4_0 -> <<"f", 4>>
      [] w = fui_m4_0 -> <<"f", -4>>
      [] OTHER -> Undef

\* what TGSI operand src reads for component c of the last token, before
\* the token: an instruction of an earlier token, a constant register, or
\* a value that is known (an unset temporary reads as 0.0)
LeafOf(src, c) ==
    LET n == regid(src.Index, src_swiz(src, c))
    IN  CASE src.File = "CONST" ->
               <<"const", regid(src.Index + base_reg(so, "CONST"),
                                src_swiz(src, c))>>
          [] src.File = "INPUT" ->
               <<"ssa", hist.pre[hist.preblock].inputs[n]>>
          [] src.File = "TEMPORARY" ->
               <<"ssa", hist.pre[hist.preblock].temporaries[n]>>
          [] OTHER -> <<"none", 0>>

\* the value of operand src for component c under the assignment env
OpVal(src, c, env) ==
    IF LeafOf(src, c) = <<"ssa", NULL>> THEN <<"f", 0>>
    ELSE IF LeafOf(src, c) \in DOMAIN env THEN <<"f", env[LeafOf(src, c)]>>
    ELSE Undef

RECURSIVE EvalInstr(_, _)
\* the value that source register reg of an instruction of category cat reads
EvalReg(reg, cat, env) ==
    LET v == CASE "SSA" \in reg.flags ->
                    IF reg.instr \in TokenInstrs
                    THEN EvalInstr(reg.instr, env)
                    ELSE IF <<"ssa", reg.instr>> \in DOMAIN env
                    THEN <<"f", env[<<"ssa", reg.instr>>]>>
                    ELSE Undef
               [] "IMMED" \in reg.flags ->
                    IF cat = 1 THEN FloatOf(reg.fim_val)
                    ELSE <<"u", reg.iim_val>>
               [] "CONST" \in reg.flags ->
                    IF reg.num >= 4 * base_reg(so, "IMMEDIATE")
                    THEN FloatOf(
                            so.immediates[reg.num
                                          - 4 * base_reg(so, "IMMEDIATE")])
                    ELSE IF <<"const", reg.num>> \in DOMAIN env
                    THEN <<"f", env[<<"const", reg.num>>]>>
                    ELSE Undef
               [] OTHER -> Undef
    IN  IF "NEGATE" \in reg.flags /\ v[1] = "f" THEN <<"f", 0 - v[2]>> ELSE v

\* the value that instruction k of the last token computes: cmps.f gives 1
\* when its predicate holds and 0 otherwise, add.s adds, a mov between
\* equal types copies and one from unsigned to float converts, sel gives
\* its third operand when its second is nonzero and its first otherwise
EvalInstr(k, env) ==
    LET i == instrs[k]
        x == EvalReg(i.regs[2], i.category, env)
        y == EvalReg(i.regs[3], i.category, env)
        z == EvalReg(i.regs[4], i.category, env)
    IN  CASE i.category = 2 /\ i.opc = "OPC_CMPS_F" ->
               IF x[1] = "f" /\ y[1] = "f"
               THEN <<"u", IF i.condition = "IR3_COND_EQ"
                           THEN (IF x[2] = y[2] THEN 1 ELSE 0)
                           ELSE IF i.condition = "IR3_COND_GE"
                           THEN (IF x[2] >= y[2] THEN 1 ELSE 0)
                           ELSE 2>>
               ELSE Undef
          [] i.category = 2 /\ i.opc = "OPC_ADD_S" ->
               IF x[1] = "u" /\ y[1] = "u" THEN <<"u", x[2] + y[2]>>
               ELSE Undef
          [] i.category = 1 ->
               IF i.src_type = i.dst_type THEN x
               ELSE IF i.src_type \in {"TYPE_U16", "TYPE_U32"}
                       /\ i.dst_type \in {"TYPE_F16", "TYPE_F32"}
                       /\ x[1] = "u"
               THEN <<"f", x[2]>>
               ELSE Undef
          [] i.category = 3 /\ i.opc \in {"OPC_SEL_F16", "OPC_SEL_F32"} ->
               IF y[1] = "u" THEN (IF y[2] # 0 THEN z ELSE x) ELSE Undef
          [] OTHER -> Undef

\* the last token was a comparison
CmpToken ==
    /\ hist.ntok > 0
    /\ hist.inst.Opcode \in {"SEQ", "SNE", "SGE", "SLE", "SGT", "SLT", "CMP"}

\* the assignments of values to what the operands of the last token read
\* for component c
CmpEnvs(c) ==
    [{LeafOf(hist.inst.Src[j], c) : j \in 1..Len(hist.inst.Src)}
        \ {<<"ssa", NULL>>} -> CmpVals]

\* 1.0 when p holds and 0.0 otherwise
Truth(p) == <<"f", IF p THEN 1 ELSE 0>>

\* what the TGSI opcode of the last token defines for component c
CmpMeaning(c, env) ==
    LET opc == hist.inst.Opcode
        a   == OpVal(hist.inst.Src[1], c, env)[2]
        b   == OpVal(hist.inst.Src[2], c, env)[2]
    IN  CASE opc = "SEQ" -> Truth(a = b)
          [] opc = "SNE" -> Truth(a # b)
          [] opc = "SGE" -> Truth(a >= b)
          [] opc = "SLE" -> Truth(a <= b)
          [] opc = "SGT" -> Truth(a > b)
          [] opc = "SLT" -> Truth(a < b)
          [] OTHER -> IF a < 0 THEN OpVal(hist.inst.Src[2], c, env)
                      ELSE OpVal(hist.inst.Src[3], c, env)

\* the operands and the predicate of the cmps.f of the last token
CmpFirst ==
    IF hist.inst.Opcode \in {"SEQ", "SNE", "SLE", "SGT"}
    THEN hist.inst.Src[2] ELSE hist.inst.Src[1]

CmpPredicate ==
    IF hist.inst.Opcode \in {"SEQ", "SNE"} THEN "IR3_COND_EQ"
    ELSE "IR3_COND_GE"

\* the value of the second operand of the cmps.f for component c
CmpSecondVal(c, env) ==
    CASE hist.inst.Opcode \in {"SEQ", "SNE", "SLE", "SGT"} ->
           OpVal(hist.inst.Src[1], c, env)
      [] hist.inst.Opcode \in {"SGE", "SLT"} ->
           OpVal(hist.inst.Src[2], c, env)
      [] OTHER -> <<"f", 0>>

NewPhis == {k \in TokenInstrs : IsNewPhi(k)}

Rank(p) == Cardinality({q \in NewPhis : q <= p})

\* the slot that phi p was stored in, in the scope that is current after the
\* token: temporaries first, then outputs
PhiSlots(p) ==
    {<<0, i>> : i \in {j \in DOMAIN blocks[ctx.block].temporaries :
                          blocks[ctx.block].temporaries[j] = p}}
    \cup {<<1, i>> : i \in {j \in DOMAIN blocks[ctx.block].outputs :
                               blocks[ctx.block].outputs[j] = p}}

Before(x, y) == x[1] < y[1] \/ (x[1] = y[1] /\ x[2] < y[2])

\* what operand r of phi p stands for: the source of the boundary node that
\* scope b gave it
SideValue(p, r, b) ==
    LET o == instrs[p].regs[r].instr
    IN  IF /\ o \in 1..Len(instrs)
           /\ instrs[o].category = -1
           /\ instrs[o].opc = "META_OUTPUT"
           /\ instrs[o].block = b
           /\ Len(instrs[o].regs) = 2
        THEN <<instrs[o].regs[2].instr>>
        ELSE <<>>

\* the new output list of scope b, one of the scopes that the last token
\* closed: one entry for each new phi, in creation order, held inside the
\* array that was allocated for the list, entry k being what operand r of
\* the k-th phi stands for
PhiOutputs(b, r) ==
    /\ blocks[b].noutputs = Cardinality(NewPhis)
    /\ DOMAIN blocks[b].outputs = 0..(Cardinality(NewPhis) - 1)
    /\ \A p \in NewPhis :
          /\ Rank(p) <= CountWritten([blocks |-> hist.pre], b, IfBlock)
          /\ SideValue(p, r, b) = <<blocks[b].outputs[Rank(p) - 1]>>

\* the phis were made for temporaries by increasing slot, then for outputs
\* by increasing slot
PhiOrder ==
    \A p \in NewPhis :
        /\ Cardinality(PhiSlots(p)) = 1
        /\ \A q \in NewPhis :
              p < q => \A x \in PhiSlots(p) : \A y \in PhiSlots(q) :
                          Before(x, y)

\* C26: after ENDIF the output list of the then-scope has exactly one entry
\* for each phi that the ENDIF made, in the order the phis were made
\* (temporaries by increasing slot, then outputs by increasing slot), entry
\* k being the then-side value of the k-th phi, and its count is the number
\* of phis; the same holds of the else-scope, when there is one, with the
\* else-side values; without an else-scope the enclosing scope keeps its
\* output count and its output list, whose slots change only by receiving
\* the phi made for them.
C26_PhiOutputLists ==
    Closed =>
        /\ PhiOrder
        /\ PhiOutputs(IfBlock, 3)
        /\ ElseBlock # NULL => PhiOutputs(ElseBlock, 4)
        /\ ElseBlock = NULL =>
              /\ blocks[ctx.block].noutputs = hist.pre[ctx.block].noutputs
              /\ DOMAIN blocks[ctx.block].outputs
                    = DOMAIN hist.pre[ctx.block].outputs
              /\ \A i \in DOMAIN blocks[ctx.block].outputs :
                    \/ blocks[ctx.block].outputs[i]
                          = hist.pre[ctx.block].outputs[i]
                    \/ blocks[ctx.block].outputs[i] \in NewPhis

\* the scope at nesting depth d around (or at) block b
RECURSIVE ScopeAt(_, _)
ScopeAt(b, d) ==
    IF Depth(blocks, b) <= d THEN b ELSE ScopeAt(blocks[b].parent, d)

\* the scope that marker k stands for now: its else-scope once it has one
MarkerScope(k) ==
    IF instrs[k].else_block # NULL THEN instrs[k].else_block
    ELSE instrs[k].if_block

\* the markers in flight are as many as the current scope is deep, all of
\* them inside branch[], whose capacity is BranchSize: a marker stored past
\* the end of the array lands on branch_count, the member that follows it
MarkersMatchDepth ==
    /\ Len(ctx.branch) = Depth(blocks, ctx.block)
    /\ Len(ctx.branch) <= BranchSize
    /\ \A i \in 1..Len(ctx.branch) :
          /\ instrs[ctx.branch[i]].category = -1
          /\ instrs[ctx.branch[i]].opc = "META_FLOW"
          /\ MarkerScope(ctx.branch[i]) = ScopeAt(ctx.block, i)

\* C27: through every well-nested sequence of IF, ELSE and ENDIF the
\* markers in flight are as many as the current scope is deep; an
\* else-scope has the parent of its then-scope; and after ENDIF the current
\* scope is the one that was current before the matching IF, the marker
\* popped being the one which that IF pushed.
C27_MarkersAndScopes ==
    ctx.block # NULL =>
        /\ MarkersMatchDepth
        /\ \A k \in 1..Len(instrs) :
              (instrs[k].category = -1 /\ instrs[k].opc = "META_FLOW"
               /\ instrs[k].else_block # NULL) =>
                  blocks[instrs[k].else_block].parent
                      = blocks[instrs[k].if_block].parent
        /\ Closed =>
              /\ ctx.block = hist.closed[1].before.block
              /\ IfBlock = Len(hist.closed[1].before.blocks) + 1
              /\ \A i \in 1..Len(ctx.branch) : ctx.branch[i] # Flow

\* the last step gathered a multi-component operand behind a fan-in node
FanStep ==
    /\ hist.ntok > 0
    /\ hist.inst.Opcode = "src_wrmask"
    /\ hist.inst.Dst.WriteMask # 1

\* the fan-in node: what the register added last to the current instruction
\* reads
FanIn ==
    instrs[ctx.current_instr]
        .regs[Len(instrs[ctx.current_instr].regs)].instr

\* the highest component position that mask m selects
Highest(m) == CHOOSE i \in 0..3 : Bit(m, i) /\ \A j \in (i + 1)..3 : ~Bit(m, j)

ArlToken == hist.ntok > 0 /\ hist.inst.Opcode = "ARL"

\* C29: ARL, in a full-precision shader as in a half-precision one, leaves
\* the live value of every component of every temporary and output register
\* that the shader declares as it was, in the current scope, which stays
\* current: the slots it changes are those of internal temporaries, and the
\* address register has no slot.
C29_ArlKeepsUserSlots ==
    ArlToken =>
        /\ ctx.block = hist.preblock
        /\ \A f \in {"TEMPORARY", "OUTPUT"} :
              \A n \in DeclaredSlots(f) :
                  SlotsOf(blocks, ctx.block, f)[n]
                      = SlotsOf(hist.pre, hist.preblock, f)[n]
        /\ blocks[ctx.block].noutputs = hist.pre[hist.preblock].noutputs

\* the pool slot that the reference returned for request k names
SlotNamed(k) ==
    so.immediates[4 * hist.req[k].reg.Index + hist.req[k].reg.Swizzle[1]]

\* C30: the reference that the immediate pool returns for a requested bit
\* pattern val denotes val, whatever the pool held (declared immediates and
\* earlier requests): the slot it names holds val when its negate flag is
\* clear and val with the sign bit flipped when the flag is set, so never a
\* value of another magnitude.
C30_ReferenceDenotesValue ==
    \A k \in 1..Len(hist.req) :
        /\ hist.req[k].reg.File = "IMMEDIATE"
        /\ (4 * hist.req[k].reg.Index + hist.req[k].reg.Swizzle[1])
              \in DOMAIN so.immediates
        /\ IF hist.req[k].reg.Negate
           THEN SlotNamed(k) = FNeg(hist.req[k].val)
           ELSE SlotNamed(k) = hist.req[k].val
        /\ SlotNamed(k)[2] = hist.req[k].val[2]
====
